---- MODULE Spec2Model ----
(***************************************************************************)
(* A model of orbitctl (src/src/orbitctl.cpp, with the constants of its    *)
(* header uvc.h): the Storage<T> ownership wrapper, the IOIterator built   *)
(* on it, device selection, the descriptor walk and the control request.   *)
(***************************************************************************)
EXTENDS Integers, Sequences, FiniteSets, TLC

(***************************************************************************)
(* Bounds of the model.                                                    *)
(***************************************************************************)
NumWrappers == 2   \* Storage objects of the Storage harness
MaxRaw == 1        \* raw values the OS hands out in the Storage harness
MaxElems == 3      \* raw elements of the cursor of the iterator harness
MaxBad == 1        \* handles whose IOObjectRelease fails, per cursor
MaxDevs == 3       \* devices in the cursor of the getCamera harness
MaxWalk == 3       \* descriptor records of one walk
MaxDevices == 2    \* devices in the cursor of a run of the program
MaxInterfaces == 2 \* interfaces in the cursor of a run of the program

(***************************************************************************)
(* State.  Each part of the program is exercised by a specification of its *)
(* own; a specification leaves the variables of the other parts alone.     *)
(***************************************************************************)
VARIABLES
  \* the Storage harness
  sKind,       \* the resource kind of the wrappers
  wrap,        \* wrapper -> [life, isValid, val, movedFrom]
  cleanCalls,  \* raw value -> number of StorageCleaner::clean invocations
               \*   (0, 1, or 2 for two or more)
  adoptions,   \* raw value -> number of times a wrapper holding it went
               \*   from not valid to valid through ref()/ptr()/operator*
  issued,      \* number of raw values the OS has handed out
  sLast,       \* what the last move or destruction did
  sDead,       \* std::terminate was called (a destructor threw)
  \* the iterator harness
  iT,          \* "device" or "interface"
  iElems,      \* the raw elements of the cursor, in cursor order
  iBad,        \* the <<object, id>> whose IOObjectRelease fails
  iPos,        \* how many elements IOIteratorNext has handed out
  iIt,         \* the iterator's members
  iLife,       \* "none", "live", "assigned" (overwritten by end()), "thrown"
               \*   (an advance threw, the object awaits its destructor),
               \*   "dead", "terminated" (std::terminate)
  iThrew,      \* begin() or an advance has thrown
  iYielded,    \* the elements that were current after begin() or an
               \*   advance returned, in order
  iLog,        \* the OS calls made so far
  \* the getCamera harness
  cDevs,       \* the devices of the cursor, in cursor order
  cOut,        \* what getCamera returned, with the OS outcomes it met
  \* the descriptor walk harness
  wCamera,     \* the Camera the walk fills in
  walked,      \* the records FindNextAssociatedDescriptor has returned
  wDone,       \* FindNextAssociatedDescriptor has returned NULL
  \* the Request harness
  rReq,        \* the Request
  rPrev,       \* the Request as it was before the last build call
  rOp,         \* the last build call and its arguments
  rPc,         \* "build", "built", "failed" (the build call threw), "sent"
  rSent,       \* what Request::send did, with the OS outcomes it met
  \* the program
  args,        \* argv, args[1] being the program name (argc = Len(args))
  pc,          \* where main is
  display,     \* main's display
  req,         \* main's Request
  device,      \* scanDescriptors' device
  camera,      \* scanDescriptors' camera, then main's
  calls,       \* the OS calls made so far
  transfers,   \* the IOUSBDevRequest of every ControlRequest call
  reported,    \* the messages printed
  exitStatus,  \* "running", "EXIT_0", "EXIT_1", or "SIGABRT" (std::terminate)
  nWalked,     \* descriptor records walked so far
  env          \* facts about the OS the program has met:
               \*   ok: no OS call has failed (resource exhaustion aside)
               \*   earlierOK: no OS call made before ControlRequest has
               \*     failed (resource exhaustion aside)
               \*   noMatch: no enumerated device has the camera's identity
               \*   noInterface: the camera has no video-control interface
               \*   sendCalled: camera.send(req) was called

storVars == <<sKind, wrap, cleanCalls, adoptions, issued, sLast, sDead>>
iterVars == <<iT, iElems, iBad, iPos, iIt, iLife, iThrew, iYielded, iLog>>
camVars == <<cDevs, cOut>>
walkVars == <<wCamera, walked, wDone>>
reqVars == <<rReq, rPrev, rOp, rPc, rSent>>
mainVars == <<args, pc, display, req, device, camera, calls, transfers,
              reported, exitStatus, nWalked, env>>

(***************************************************************************)
(* Storage<T> (orbitctl.cpp 98-175).  A wrapper is [isValid, val].  val is *)
(* Indet while no call has written the slot (Storage() leaves val_         *)
(* uninitialised), 0 for a null pointer / IO_OBJECT_NULL, and a positive   *)
(* number for a raw value handed out by the OS.                            *)
(***************************************************************************)
Indet == -1

\* The four StorageCleaner specialisations.  io_iterator_t and io_service_t
\* are the same type (comment at 53-64), so they share "io_object".
Kinds == {"io_object", "plugin", "device", "interface"}

\* Storage() : isValid_ = false, val_ not initialised
StorageDefault == [isValid |-> FALSE, val |-> Indet]

\* Storage(nullptr_t)
StorageNull == [isValid |-> FALSE, val |-> 0]

\* StorageCleaner<T>::clean makes its OS release call: always for an
\* io_object (IOObjectRelease), only on a non-null pointer for the others.
CleanCallsOS(kind, v) == IF kind = "io_object" THEN TRUE ELSE v # 0

\* StorageCleaner<T>::clean throws: only IOObjectRelease is checked
\* (kernCheck); the pointer kinds ignore the result of their release call.
\* osOK is the outcome of the OS call.
CleanThrows(kind, osOK) == kind = "io_object" /\ ~osOK

\* release(): if (isValid_) { clean(val_); isValid_ = false; }
\* When clean throws, the assignment is not reached.  cleaned lists the
\* values clean was invoked on.
release(kind, s, osOK) ==
  IF s.isValid
  THEN IF CleanThrows(kind, osOK)
       THEN [s |-> s, cleaned |-> <<s.val>>, threw |-> TRUE]
       ELSE [s |-> [s EXCEPT !.isValid = FALSE], cleaned |-> <<s.val>>,
             threw |-> FALSE]
  ELSE [s |-> s, cleaned |-> <<>>, threw |-> FALSE]

\* ref() / ptr() / operator*(): isValid_ = true, whatever the slot holds
ref(s) == [s EXCEPT !.isValid = TRUE]

\* A move that copies: the source keeps its ownership flag.
MoveFromCopies(other) ==
  [dst |-> [isValid |-> other.isValid, val |-> other.val], src |-> other]

\* Storage(Storage&& other) and the tail of operator=(Storage&&):
\* val_ = std::move(other.val_) copies a scalar, so the source keeps the
\* value; isValid_ = other.isValid_; other.isValid_ = false.
MoveFrom(other) ==
  [dst |-> [isValid |-> other.isValid, val |-> other.val],
   src |-> [other EXCEPT !.isValid = FALSE]]

(***************************************************************************)
(* The Storage harness: NumWrappers Storage objects of one kind, driven by *)
(* every public operation in any order.                                    *)
(***************************************************************************)
Wrappers == 1..NumWrappers
RawVals == 1..MaxRaw

NoLast == [op |-> "none", src |-> 0, dst |-> 0, srcValid |-> FALSE,
           srcVal |-> Indet, wasMovedFrom |-> FALSE, cleaned |-> 0,
           threw |-> FALSE]

Unborn == [life |-> "unborn", isValid |-> FALSE, val |-> Indet,
           movedFrom |-> FALSE]

StorageOf(w) == [isValid |-> wrap[w].isValid, val |-> wrap[w].val]

Live(w) == wrap[w].life = "live"

\* the outcomes of the OS release call that the harness distinguishes: a
\* failure matters only where the cleaner checks the result
ReleaseOutcomes == IF sKind = "io_object" THEN BOOLEAN ELSE {TRUE}

\* a destroyed wrapper: its members are gone
Dead == [life |-> "dead", isValid |-> FALSE, val |-> Indet,
         movedFrom |-> FALSE]

\* a counter of the harness: 0, 1, or 2 for "two or more"
Saturated(n) == IF n >= 2 THEN 2 ELSE n

\* cleanCalls after clean was invoked on the values of list (raw ones count)
Counted(counts, list) ==
  [v \in RawVals |->
     Saturated(counts[v] + Cardinality({i \in 1..Len(list) : list[i] = v}))]

InitStorage ==
  /\ sKind \in Kinds
  /\ wrap = [w \in Wrappers |-> Unborn]
  /\ cleanCalls = [v \in RawVals |-> 0]
  /\ adoptions = [v \in RawVals |-> 0]
  /\ issued = 0
  /\ sLast = NoLast
  /\ sDead = FALSE

\* Storage s;   or   Storage s{nullptr};
Construct(w) ==
  /\ ~sDead
  /\ wrap[w].life = "unborn"
  /\ \E s \in {StorageDefault, StorageNull} :
       wrap' = [wrap EXCEPT ![w] = [life |-> "live", isValid |-> s.isValid,
                                    val |-> s.val, movedFrom |-> FALSE]]
  /\ sLast' = NoLast
  /\ UNCHANGED <<sKind, cleanCalls, adoptions, issued, sDead>>
  /\ UNCHANGED <<iterVars, camVars, walkVars, mainVars, reqVars>>

\* f(..., s.initptr())  or  s.initref() = f(...): release(), then the OS
\* call writes the slot ("fresh": a new raw value; "null": a null result)
\* or fails without writing it ("fail").
InitSlot(w) ==
  /\ ~sDead
  /\ Live(w)
  /\ \E osOK \in ReleaseOutcomes, out \in {"fresh", "null", "fail"} :
       LET r == release(sKind, StorageOf(w), osOK) IN
       /\ out = "fresh" => issued < MaxRaw
       /\ cleanCalls' = Counted(cleanCalls, r.cleaned)
       /\ IF r.threw
          THEN /\ wrap' = wrap
               /\ issued' = issued
          ELSE /\ wrap' = [wrap EXCEPT ![w].isValid = r.s.isValid,
                                       ![w].movedFrom = FALSE,
                                       ![w].val = CASE out = "fresh" -> issued + 1
                                                    [] out = "null" -> 0
                                                    [] OTHER -> r.s.val]
               /\ issued' = IF out = "fresh" THEN issued + 1 ELSE issued
  /\ sLast' = NoLast
  /\ UNCHANGED <<sKind, adoptions, sDead>>
  /\ UNCHANGED <<iterVars, camVars, walkVars, mainVars, reqVars>>

\* s.ref(), s.ptr(), *s  (on a slot some call has written)
Ref(w) ==
  /\ ~sDead
  /\ Live(w)
  /\ wrap[w].val # Indet
  /\ LET s == ref(StorageOf(w))
         v == wrap[w].val
         adopts == ~wrap[w].isValid /\ s.isValid /\ v \in RawVals IN
     /\ wrap' = [wrap EXCEPT ![w].isValid = s.isValid, ![w].movedFrom = FALSE]
     /\ adoptions' = IF adopts THEN [adoptions EXCEPT ![v] = Saturated(@ + 1)]
                     ELSE adoptions
  /\ sLast' = NoLast
  /\ UNCHANGED <<sKind, cleanCalls, issued, sDead>>
  /\ UNCHANGED <<iterVars, camVars, walkVars, mainVars, reqVars>>

\* s.release()
Release(w) ==
  /\ ~sDead
  /\ Live(w)
  /\ \E osOK \in ReleaseOutcomes :
       LET r == release(sKind, StorageOf(w), osOK) IN
       /\ cleanCalls' = Counted(cleanCalls, r.cleaned)
       /\ wrap' = [wrap EXCEPT ![w].isValid = r.s.isValid]
  /\ sLast' = NoLast
  /\ UNCHANGED <<sKind, adoptions, issued, sDead>>
  /\ UNCHANGED <<iterVars, camVars, walkVars, mainVars, reqVars>>

\* Storage d{std::move(s)};
MoveConstruct(d, s) ==
  /\ ~sDead
  /\ wrap[d].life = "unborn"
  /\ Live(s)
  /\ LET m == MoveFrom(StorageOf(s)) IN
     /\ wrap' = [wrap EXCEPT
                   ![d] = [life |-> "live", isValid |-> m.dst.isValid,
                           val |-> m.dst.val, movedFrom |-> FALSE],
                   ![s] = [@ EXCEPT !.isValid = m.src.isValid,
                                    !.movedFrom = TRUE]]
     /\ sLast' = [NoLast EXCEPT !.op = "MoveConstruct", !.src = s, !.dst = d,
                                !.srcValid = wrap[s].isValid,
                                !.srcVal = wrap[s].val]
  /\ UNCHANGED <<sKind, cleanCalls, adoptions, issued, sDead>>
  /\ UNCHANGED <<iterVars, camVars, walkVars, mainVars, reqVars>>

\* d = std::move(s);   (d and s may be the same object)
MoveAssign(d, s) ==
  /\ ~sDead
  /\ Live(d)
  /\ Live(s)
  /\ \E osOK \in ReleaseOutcomes :
       LET r == release(sKind, StorageOf(d), osOK)
           \* the wrappers once release() has run on d
           w1 == [wrap EXCEPT ![d].isValid = r.s.isValid]
           m == MoveFrom([isValid |-> w1[s].isValid, val |-> w1[s].val])
           \* val_ = other.val_; isValid_ = other.isValid_;
           w2 == [w1 EXCEPT ![d].isValid = m.dst.isValid,
                            ![d].val = m.dst.val,
                            ![d].movedFrom = FALSE]
           \* other.isValid_ = false;
           w3 == [w2 EXCEPT ![s].isValid = m.src.isValid,
                            ![s].movedFrom = TRUE] IN
       /\ cleanCalls' = Counted(cleanCalls, r.cleaned)
       /\ wrap' = IF r.threw THEN w1 ELSE w3
       /\ sLast' = [NoLast EXCEPT !.op = "MoveAssign", !.src = s, !.dst = d,
                                  !.srcValid = wrap[s].isValid,
                                  !.srcVal = wrap[s].val,
                                  !.cleaned = Len(r.cleaned),
                                  !.threw = r.threw]
  /\ UNCHANGED <<sKind, adoptions, issued, sDead>>
  /\ UNCHANGED <<iterVars, camVars, walkVars, mainVars, reqVars>>

\* ~Storage(): release(); a destructor is noexcept, so a throwing clean
\* ends the program in std::terminate.
Destroy(w) ==
  /\ ~sDead
  /\ Live(w)
  /\ \E osOK \in ReleaseOutcomes :
       LET r == release(sKind, StorageOf(w), osOK) IN
       /\ cleanCalls' = Counted(cleanCalls, r.cleaned)
       /\ wrap' = [wrap EXCEPT ![w] = Dead]
       /\ sDead' = r.threw
       /\ sLast' = [NoLast EXCEPT !.op = "Destroy", !.src = w, !.dst = w,
                                  !.srcValid = wrap[w].isValid,
                                  !.srcVal = wrap[w].val,
                                  !.wasMovedFrom = wrap[w].movedFrom,
                                  !.cleaned = Len(r.cleaned),
                                  !.threw = r.threw]
  /\ UNCHANGED <<sKind, adoptions, issued>>
  /\ UNCHANGED <<iterVars, camVars, walkVars, mainVars, reqVars>>

NextStorage ==
  \/ \E w \in Wrappers : Construct(w)
  \/ \E w \in Wrappers : InitSlot(w)
  \/ \E w \in Wrappers : Ref(w)
  \/ \E w \in Wrappers : Release(w)
  \/ \E d, s \in Wrappers : MoveConstruct(d, s)
  \/ \E d, s \in Wrappers : MoveAssign(d, s)
  \/ \E w \in Wrappers : Destroy(w)

(***************************************************************************)
(* IOIterator<T> (orbitctl.cpp 182-259).  An iterator is                   *)
(* [iterator_, element_]: the Storage of the enumeration cursor and the    *)
(* Storage of the current typed interface.  The OS side of a cursor is a   *)
(* sequence of raw elements and the number already pulled.  The raw        *)
(* service, the plugin and the typed interface of element i all carry the  *)
(* number i; the cursor's own handle is 1.  What the OS does for an        *)
(* element is its field out:                                               *)
(*   "ok"       plugin created, interface returned                         *)
(*   "nores"    plugin creation returns kIOReturnNoResources               *)
(*   "plugerr"  plugin creation returns another error                      *)
(*   "plugnull" plugin creation succeeds with a null plugin                *)
(*   "qfail"    QueryInterface returns a failure                           *)
(*   "qnull"    QueryInterface succeeds with a null interface              *)
(* Every OS call made is appended to a log as <<call, T, object, id>>.     *)
(* bad is the set of <<object, id>> whose IOObjectRelease fails.           *)
(***************************************************************************)
ElemOutcomes == {"ok", "nores", "plugerr", "plugnull", "qfail", "qnull"}

\* the element type T of an IOIterator<T> / the cleaner kind of its element_
IterKinds == {"device", "interface"}

\* IOIterator(): element_{nullptr}, iterator_ default-constructed
IterDefault == [iterator_ |-> StorageDefault, element_ |-> StorageNull]

\* An operator== with || in place of &&.
IterEqEither(a, b) == ~a.iterator_.isValid \/ ~b.iterator_.isValid

\* operator==: !iterator_.isValid() && !other.iterator_.isValid()
IterEq(a, b) == ~a.iterator_.isValid /\ ~b.iterator_.isValid

\* the OS release calls StorageCleaner<kind>::clean makes for the values of
\* list, as log entries
CleanLog(T, kind, object, list) ==
  LET call == CASE kind = "io_object" -> "IOObjectRelease"
                [] kind = "plugin" -> "IODestroyPlugInInterface"
                [] OTHER -> "Release"
      made == SelectSeq(list, LAMBDA v : CleanCallsOS(kind, v)) IN
  [i \in 1..Len(made) |-> <<call, T, object, made[i]>>]

\* Leaving operator++ (return or throw): ~Storage(plugIn), then
\* ~Storage(service).  A throwing destructor is std::terminate.
LeaveIncr(T, it, pos, log, plugIn, service, status, bad) ==
  LET rp == release("plugin", plugIn, TRUE)
      rs == release("io_object", service, <<"service", service.val>> \notin bad)
      log2 == log \o CleanLog(T, "plugin", "plugin", rp.cleaned)
                  \o CleanLog(T, "io_object", "service", rs.cleaned) IN
  [it |-> it, pos |-> pos, log |-> log2,
   status |-> IF rs.threw THEN "terminate" ELSE status]

\* What the OS calls of operator++ return for a raw element raw whose
\* behaviour is out: the kern_return_t and the plugin pointer of
\* IOCreatePlugInInterfaceForService, the HRESULT of QueryInterface and the
\* interface pointer it stores (old: what the slot held before).
PlugInKerr(out) ==
  CASE out = "nores" -> "kIOReturnNoResources"
    [] out = "plugerr" -> "kIOReturnError"
    [] OTHER -> "KERN_SUCCESS"

PlugInPtr(out, raw) ==
  IF out \in {"nores", "plugerr", "plugnull"} THEN 0 ELSE raw

QueryHResult(out) == IF out = "qfail" THEN "E_FAIL" ELSE "S_OK"

QueryPtr(out, raw, old) ==
  CASE out = "qfail" -> old
    [] out = "qnull" -> 0
    [] OTHER -> raw

\* kernCheck(kerr, desc) throws
kernCheck(kerr) == kerr # "KERN_SUCCESS"

\* hrCheck(result, desc) throws
hrCheck(result) == result # "S_OK"

\* An operator++ that skips an element on any plugin creation failure.
SkipsOnAnyFailure(kerr) == kerr # "KERN_SUCCESS"

\* An operator++ that never skips an element.
SkipsNever(kerr) == FALSE

\* if (kerr == kIOReturnNoResources) { continue; }
Skips(kerr) == kerr = "kIOReturnNoResources"

\* operator++ (213-246), from the top of one pass of its while loop, with
\* the local service as the previous pass left it.  rhsFirst: the right
\* operand IOIteratorNext(iterator_.ref()) is evaluated before the left
\* operand service.initref() (C++17), or after it (allowed before C++17).
RECURSIVE IncrLoop(_, _, _, _, _, _, _, _)
IncrLoop(T, it, service, elems, pos, log, bad, rhsFirst) ==
  LET \* service.initref(): release()
      r == release("io_object", service, <<"service", service.val>> \notin bad)
      relLog == CleanLog(T, "io_object", "service", r.cleaned)
      \* IOIteratorNext(iterator_.ref())
      itA == [it EXCEPT !.iterator_ = ref(@)]
      raw == IF pos < Len(elems) THEN pos + 1 ELSE 0
      pos1 == IF raw # 0 THEN pos + 1 ELSE pos
      pull == <<"IOIteratorNext", T, "cursor", raw>>
  IN
  IF r.threw
  THEN \* initref() throws; unwinding destroys service, which is still valid
       IF rhsFirst
       THEN LeaveIncr(T, itA, pos1, (log \o <<pull>>) \o relLog,
                      StorageNull, r.s, "throw", bad)
       ELSE LeaveIncr(T, it, pos, log \o relLog, StorageNull, r.s, "throw", bad)
  ELSE
    LET log1 == IF rhsFirst THEN (log \o <<pull>>) \o relLog
                ELSE (log \o relLog) \o <<pull>>
        service1 == [isValid |-> FALSE, val |-> raw]
    IN
    IF raw = 0
    THEN \* the loop ends: iterator_.release(); element_.release();
      LET rc == release("io_object", itA.iterator_,
                        <<"cursor", itA.iterator_.val>> \notin bad)
          logc == log1 \o CleanLog(T, "io_object", "cursor", rc.cleaned)
          re == release(T, itA.element_, TRUE)
      IN
      IF rc.threw
      THEN LeaveIncr(T, itA, pos1, logc, StorageNull, service1, "throw", bad)
      ELSE LeaveIncr(T, [iterator_ |-> rc.s, element_ |-> re.s], pos1,
                     logc \o CleanLog(T, T, "element", re.cleaned),
                     StorageNull, service1, "ok", bad)
    ELSE
      LET out == elems[raw].out
          \* Storage<IOCFPlugInInterface**> plugIn{nullptr};
          \* kerr = IOCreatePlugInInterfaceForService(service.ref(), ...,
          \*          plugIn.initptr(), &score)
          service2 == ref(service1)
          kerr == PlugInKerr(out)
          log2 == log1 \o <<<<"IOCreatePlugInInterfaceForService", T, "service", raw>>>>
          created == [release("plugin", StorageNull, TRUE).s
                        EXCEPT !.val = PlugInPtr(out, raw)]
      IN
      IF Skips(kerr)
      THEN \* continue: plugIn is destroyed, service stays for the next pass
        LET rp == release("plugin", created, TRUE) IN
        IncrLoop(T, itA, service2, elems, pos1,
                 log2 \o CleanLog(T, "plugin", "plugin", rp.cleaned),
                 bad, rhsFirst)
      ELSE IF kernCheck(kerr)
      THEN LeaveIncr(T, itA, pos1, log2, created, service2, "throw", bad)
      ELSE IF ref(created).val = 0
      THEN \* if (!plugIn.ref()) throw "plugIn is null"
        LeaveIncr(T, itA, pos1, log2, ref(created), service2, "throw", bad)
      ELSE
        LET plugIn == ref(created)
            \* (*plugIn)->QueryInterface(plugIn.ref(), ..., element_.initptr())
            re == release(T, itA.element_, TRUE)
            log3 == (log2 \o CleanLog(T, T, "element", re.cleaned))
                      \o <<<<"QueryInterface", T, "plugin", plugIn.val>>>>
            written == [re.s EXCEPT !.val = QueryPtr(out, raw, re.s.val)]
        IN
        IF hrCheck(QueryHResult(out))
        THEN LeaveIncr(T, [itA EXCEPT !.element_ = written], pos1, log3,
                       plugIn, service2, "throw", bad)
        ELSE IF ref(written).val = 0
        THEN \* if (!element_.ref()) throw "device is null"
          LeaveIncr(T, [itA EXCEPT !.element_ = ref(written)], pos1, log3,
                    plugIn, service2, "throw", bad)
        ELSE \* return *this;
          LeaveIncr(T, [itA EXCEPT !.element_ = ref(written)], pos1, log3,
                    plugIn, service2, "ok", bad)

\* operator++ on iterator it over the cursor (elems, pos)
Incr(T, it, elems, pos, log, bad, rhsFirst) ==
  IncrLoop(T, it, StorageDefault, elems, pos, log, bad, rhsFirst)

\* ~IOIterator(): members are destroyed in reverse order of declaration,
\* element_ then iterator_.  Also what a constructor that throws does to
\* the members it had built.
IterDestroy(T, it, log, bad) ==
  LET re == release(T, it.element_, TRUE)
      rc == release("io_object", it.iterator_,
                    <<"cursor", it.iterator_.val>> \notin bad) IN
  [it |-> [iterator_ |-> rc.s, element_ |-> re.s],
   log |-> (log \o CleanLog(T, T, "element", re.cleaned))
                \o CleanLog(T, "io_object", "cursor", rc.cleaned),
   status |-> IF rc.threw THEN "terminate" ELSE "ok"]

\* IOIterator(Storage<io_iterator_t> iterator): iterator_(std::move(iterator)),
\* element_{nullptr}, then ++*this.  When ++ throws the two members are
\* destroyed and no iterator exists.
IterConstruct(T, iterator, elems, log, bad, rhsFirst) ==
  LET built == [iterator_ |-> MoveFrom(iterator).dst, element_ |-> StorageNull]
      \* the outcome of the constructor when ++*this ended as r
      After(r) ==
        LET d == IterDestroy(T, r.it, r.log, bad) IN
        IF r.status = "throw"
        THEN [it |-> d.it, pos |-> r.pos, log |-> d.log,
              status |-> IF d.status = "terminate" THEN "terminate"
                         ELSE "throw"]
        ELSE r
  IN
  CHOOSE c \in {After(r) : r \in {Incr(T, built, elems, 0, log, bad, rhsFirst)}} :
    TRUE

\* IOIterator& operator=(IOIterator&&) = default: iterator_ = std::move(..),
\* then element_ = std::move(..); each is release() and MoveFrom.
IterMoveAssign(T, it, other, log, bad) ==
  LET rc == release("io_object", it.iterator_,
                    <<"cursor", it.iterator_.val>> \notin bad)
      re == release(T, it.element_, TRUE)
      logc == log \o CleanLog(T, "io_object", "cursor", rc.cleaned) IN
  IF rc.threw
  THEN [it |-> it, log |-> logc, status |-> "throw"]
  ELSE [it |-> [iterator_ |-> MoveFrom(other.iterator_).dst,
                element_ |-> MoveFrom(other.element_).dst],
        log |-> logc \o CleanLog(T, T, "element", re.cleaned),
        status |-> "ok"]

\* USBDevices::begin / USBVideoInterfaces::begin (271-281, 388-403): the OS
\* call writes the cursor handle into iterator.initptr(); kernCheck/hrCheck
\* throws when it fails; else return Iterator(std::move(iterator)).
IterBegin(T, createOK, elems, log, bad, rhsFirst) ==
  LET call == IF T = "device" THEN "IOServiceGetMatchingServices"
              ELSE "CreateInterfaceIterator"
      log1 == log \o <<<<call, T, "cursor", IF createOK THEN 1 ELSE 0>>>> IN
  IF ~createOK
  THEN [it |-> IterDefault, pos |-> 0, log |-> log1, status |-> "throw"]
  ELSE IterConstruct(T, [isValid |-> FALSE, val |-> 1], elems, log1, bad, rhsFirst)

(***************************************************************************)
(* The iterator harness: one IOIterator<T> over one cursor, constructed by *)
(* begin(), advanced while it differs from end(), overwritten by end() or  *)
(* destroyed at any point.                                                 *)
(***************************************************************************)
\* sequences over S of length at most n
SeqUpTo(S, n) == UNION {[1..k -> S] : k \in 0..n}

\* the subsets of S with at most n members
SubsetsUpTo(S, n) == {B \in SUBSET S : Cardinality(B) <= n}

\* the objects of a cursor of n elements that IOObjectRelease is called on
Releasable(n) == {<<"cursor", 1>>} \cup {<<"service", i>> : i \in 1..n}

InitIter ==
  /\ iT \in IterKinds
  /\ iElems \in SeqUpTo([out : ElemOutcomes], MaxElems)
  /\ iBad \in SubsetsUpTo(Releasable(Len(iElems)), MaxBad)
  /\ iPos = 0
  /\ iIt = IterDefault
  /\ iLife = "none"
  /\ iThrew = FALSE
  /\ iYielded = <<>>
  /\ iLog = <<>>

\* the iterator after an operation that ended with status, and what it
\* yielded
IterOutcome(r, lifeOnThrow) ==
  /\ iIt' = r.it
  /\ iLog' = r.log
  /\ iLife' = CASE r.status = "ok" -> "live"
                [] r.status = "throw" -> lifeOnThrow
                [] OTHER -> "terminated"
  /\ iThrew' = (iThrew \/ r.status # "ok")
  /\ iYielded' = IF r.status = "ok" /\ ~IterEq(r.it, IterDefault)
                 THEN Append(iYielded, r.it.element_.val)
                 ELSE iYielded

\* auto it = xs.begin();
IterNew ==
  /\ iLife = "none"
  /\ \E createOK \in BOOLEAN, rhsFirst \in BOOLEAN :
       LET r == IterBegin(iT, createOK, iElems, iLog, iBad, rhsFirst) IN
       /\ iPos' = r.pos
       /\ IterOutcome(r, "dead")
  /\ UNCHANGED <<iT, iElems, iBad>>
  /\ UNCHANGED <<storVars, camVars, walkVars, mainVars, reqVars>>

\* ++it, as a range-for does it: only while it != end()
IterAdvance ==
  /\ iLife = "live"
  /\ ~IterEq(iIt, IterDefault)
  /\ \E rhsFirst \in BOOLEAN :
       LET r == Incr(iT, iIt, iElems, iPos, iLog, iBad, rhsFirst) IN
       /\ iPos' = r.pos
       /\ IterOutcome(r, "thrown")
  /\ UNCHANGED <<iT, iElems, iBad>>
  /\ UNCHANGED <<storVars, camVars, walkVars, mainVars, reqVars>>

\* it = std::move(xs.end());
IterAssignEnd ==
  /\ iLife = "live"
  /\ LET r == IterMoveAssign(iT, iIt, IterDefault, iLog, iBad) IN
     /\ iIt' = r.it
     /\ iLog' = r.log
     /\ iLife' = IF r.status = "ok" THEN "assigned" ELSE "thrown"
     /\ iThrew' = (iThrew \/ r.status # "ok")
  /\ UNCHANGED <<iT, iElems, iBad, iPos, iYielded>>
  /\ UNCHANGED <<storVars, camVars, walkVars, mainVars, reqVars>>

\* the iterator goes out of scope, normally or while an exception unwinds
IterDelete ==
  /\ iLife \in {"live", "assigned", "thrown"}
  /\ LET r == IterDestroy(iT, iIt, iLog, iBad) IN
     /\ iIt' = r.it
     /\ iLog' = r.log
     /\ iLife' = IF r.status = "ok" THEN "dead" ELSE "terminated"
  /\ UNCHANGED <<iT, iElems, iBad, iPos, iThrew, iYielded>>
  /\ UNCHANGED <<storVars, camVars, walkVars, mainVars, reqVars>>

NextIter ==
  \/ IterNew
  \/ IterAdvance
  \/ IterAssignEnd
  \/ IterDelete

(***************************************************************************)
(* getCamera (orbitctl.cpp 301-319).  A device of the cursor is            *)
(* [out, vendor, product, rd]: out as for any cursor element, the ids the  *)
(* device reports, and rd, which of the two reads fails ("vfail": the      *)
(* vendor read, "pfail": the product read, "ok": neither).                 *)
(***************************************************************************)
VendorId == 1133     \* 0x046d
ProductId == 2452    \* 0x0994

\* the ids of the devices of the model: the camera's and 0x1234 / 0x5678
Vendors == {VendorId, 4660}
Products == {ProductId, 22136}

DeviceElems ==
  {[out |-> "ok", vendor |-> v, product |-> p, rd |-> "ok"] :
     v \in Vendors, p \in Products}
  \cup {[out |-> "ok", vendor |-> VendorId, product |-> ProductId, rd |-> r] :
          r \in {"vfail", "pfail"}}
  \cup {[out |-> o, vendor |-> 0, product |-> 0, rd |-> "ok"] :
          o \in ElemOutcomes \ {"ok"}}

\* the kern_return_t of GetDeviceVendor and of GetDeviceProduct on device e
VendorKerr(e) == IF e.rd = "vfail" THEN "kIOReturnError" ELSE "KERN_SUCCESS"

ProductKerr(e) == IF e.rd = "pfail" THEN "kIOReturnError" ELSE "KERN_SUCCESS"

\* A test that looks at the vendor id only.
MatchesVendor(vendor, product) == vendor = VendorId

\* A test that accepts a device on either id.
MatchesEither(vendor, product) == vendor = VendorId \/ product = ProductId

\* if (vendor == 0x046d && product == 0x0994)
Matches(vendor, product) == vendor = VendorId /\ product = ProductId

\* what getCamera hands back: the Storage it returns (when status is "ok"),
\* the number of elements pulled from the cursor, the log, and status
CameraResult(dev, pos, lg, status) ==
  [device |-> dev, pos |-> pos, log |-> lg, status |-> status]

\* leaving getCamera with the range-for's iterator it alive: ~IOIterator
LeaveGetCamera(it, dev, pos, lg, status, bad) ==
  LET d == IterDestroy("device", it, lg, bad) IN
  CameraResult(dev, pos, d.log,
               IF d.status = "terminate" THEN "terminate" ELSE status)

\* the range-for of getCamera from its test __begin != __end, with it the
\* iterator __begin
RECURSIVE CameraLoop(_, _, _, _, _, _)
CameraLoop(it, devs, pos, lg, bad, rhsFirst) ==
  IF IterEq(it, IterDefault)
  THEN \* return {};
       LeaveGetCamera(it, StorageDefault, pos, lg, "ok", bad)
  ELSE
    LET \* Storage& device = *__begin;  (*device)->GetDeviceVendor(device.ref(), ..)
        it1 == [it EXCEPT !.element_ = ref(@)]
        id == it1.element_.val
        e == devs[id]
        logV == Append(lg, <<"GetDeviceVendor", "device", "element", id>>)
        logP == Append(logV, <<"GetDeviceProduct", "device", "element", id>>)
    IN
    IF kernCheck(VendorKerr(e))
    THEN LeaveGetCamera(it1, StorageDefault, pos, logV, "throw", bad)
    ELSE IF kernCheck(ProductKerr(e))
    THEN LeaveGetCamera(it1, StorageDefault, pos, logP, "throw", bad)
    ELSE IF Matches(e.vendor, e.product)
    THEN \* return std::move(device);
      LET m == MoveFrom(it1.element_) IN
      LeaveGetCamera([it1 EXCEPT !.element_ = m.src], m.dst, pos, logP, "ok", bad)
    ELSE \* ++__begin, then the test again
      LET After(r) ==
            CASE r.status = "ok" ->
                   CameraLoop(r.it, devs, r.pos, r.log, bad, rhsFirst)
              [] r.status = "throw" ->
                   LeaveGetCamera(r.it, StorageDefault, r.pos, r.log,
                                  "throw", bad)
              [] OTHER ->
                   CameraResult(StorageDefault, r.pos, r.log, "terminate")
      IN
      CHOOSE c \in {After(r) :
                      r \in {Incr("device", it1, devs, pos, logP, bad, rhsFirst)}} :
        TRUE

\* getCamera(): USBDevices ds; for (Storage& device : ds) ...
getCamera(devs, createOK, lg, bad, rhsFirst) ==
  LET After(b) ==
        IF b.status = "ok"
        THEN CameraLoop(b.it, devs, b.pos, b.log, bad, rhsFirst)
        ELSE CameraResult(StorageDefault, b.pos, b.log, b.status)
  IN
  CHOOSE c \in {After(b) :
                  b \in {IterBegin("device", createOK, devs, lg, bad, rhsFirst)}} :
    TRUE

(***************************************************************************)
(* The getCamera harness: one call of getCamera over a cursor of devices.  *)
(***************************************************************************)
NoCall == [device |-> StorageDefault, pos |-> 0, log |-> <<>>,
           status |-> "none", createOK |-> TRUE, bad |-> {}]

InitCam ==
  /\ cDevs \in SeqUpTo(DeviceElems, MaxDevs)
  /\ cOut = NoCall

\* Storage<IOUSBDeviceInterface**> device = getCamera();
CallGetCamera ==
  /\ cOut.status = "none"
  /\ \E createOK \in BOOLEAN, rhsFirst \in BOOLEAN,
        bad \in SubsetsUpTo(Releasable(Len(cDevs)), MaxBad) :
       LET r == getCamera(cDevs, createOK, <<>>, bad, rhsFirst) IN
       cOut' = [device |-> r.device, pos |-> r.pos, log |-> r.log,
                status |-> r.status, createOK |-> createOK, bad |-> bad]
  /\ UNCHANGED cDevs
  /\ UNCHANGED <<storVars, iterVars, walkVars, mainVars, reqVars>>

NextCam == CallGetCamera

(***************************************************************************)
(* The descriptor walk (orbitctl.cpp 413-435, 467-604; constants of        *)
(* uvc.h).  A descriptor record is [bDescriptorType, bDescriptorSubType,   *)
(* bUnitID, guidExtensionCode]: the bytes at offsets 1, 2, 3 and 4..19,    *)
(* whatever kind of record they belong to.                                 *)
(***************************************************************************)
USB_ENDPOINT_DESCRIPTOR == 5       \* 0x05
CS_INTERFACE == 36                 \* 0x24
CS_ENDPOINT == 37                  \* 0x25
VS_LOGITECH_TYPE == 65             \* 0x41
VC_HEADER == 1
VC_EXTENSION_UNIT == 6
VS_LOGITECH_EXTENSION_UNIT == 1

kMotorGuid ==
  <<130, 6, 97, 99, 112, 80, 171, 73, 184, 204, 179, 133, 94, 141, 34, 86>>

kHwControlGuid ==
  <<130, 6, 97, 99, 112, 80, 171, 73, 184, 204, 179, 133, 94, 141, 34, 31>>

\* struct Camera: Camera camera; leaves the three bytes uninitialised
CameraDefault ==
  [interface |-> StorageDefault, videoInterfaceNumber |-> Indet,
   motorUnit |-> Indet, hwControlUnit |-> Indet]

\* return {}; an aggregate initialised from an empty list: the bytes are 0
CameraEmpty ==
  [interface |-> StorageDefault, videoInterfaceNumber |-> 0,
   motorUnit |-> 0, hwControlUnit |-> 0]

\* A memcmp that leaves the last byte out.
memcmpShort(a, b, n) == IF \A i \in 1..(n - 1) : a[i] = b[i] THEN 0 ELSE 1

\* memcmp(a, b, n) is 0 exactly when the first n bytes agree
memcmp(a, b, n) == IF \A i \in 1..n : a[i] = b[i] THEN 0 ELSE 1

\* An extractExtensionData that keeps the first unit id it stored.
extractExtensionDataFirst(cam, eudesc) ==
  IF memcmp(eudesc.guidExtensionCode, kMotorGuid, Len(kMotorGuid)) = 0
  THEN IF cam.motorUnit = Indet
       THEN [cam EXCEPT !.motorUnit = eudesc.bUnitID]
       ELSE cam
  ELSE IF memcmp(eudesc.guidExtensionCode, kHwControlGuid,
                 Len(kHwControlGuid)) = 0
  THEN IF cam.hwControlUnit = Indet
       THEN [cam EXCEPT !.hwControlUnit = eudesc.bUnitID]
       ELSE cam
  ELSE cam

\* extractExtensionData(camera, eudesc)
extractExtensionData(cam, eudesc) ==
  IF memcmp(eudesc.guidExtensionCode, kMotorGuid, Len(kMotorGuid)) = 0
  THEN [cam EXCEPT !.motorUnit = eudesc.bUnitID]
  ELSE IF memcmp(eudesc.guidExtensionCode, kHwControlGuid,
                 Len(kHwControlGuid)) = 0
  THEN [cam EXCEPT !.hwControlUnit = eudesc.bUnitID]
  ELSE cam

\* A descriptor loop that reads every record as an extension unit.
WalkRecordAnyType(cam, descriptor) == extractExtensionData(cam, descriptor)

\* the body of the descriptor loop: switch (descriptor->bDescriptorType),
\* and within CS_INTERFACE and VS_LOGITECH_TYPE the switch on the subtype.
\* Every other case only prints, and only for scan.
WalkRecord(cam, descriptor) ==
  CASE descriptor.bDescriptorType = CS_INTERFACE
         /\ descriptor.bDescriptorSubType = VC_EXTENSION_UNIT ->
           extractExtensionData(cam, descriptor)
    [] descriptor.bDescriptorType = VS_LOGITECH_TYPE
         /\ descriptor.bDescriptorSubType = VS_LOGITECH_EXTENSION_UNIT ->
           extractExtensionData(cam, descriptor)
    [] OTHER -> cam

\* the records of the model.  Extension units of both types, with the two
\* GUIDs and one that differs from the motor GUID in its first byte; and
\* records of other (type, subtype) whose bytes 4..19 happen to hold one of
\* the two GUIDs.
UnitIds == {1, 2}

Guids == {kMotorGuid, kHwControlGuid, [kMotorGuid EXCEPT ![1] = 0]}

Record(type, subtype, unit, guid) ==
  [bDescriptorType |-> type, bDescriptorSubType |-> subtype,
   bUnitID |-> unit, guidExtensionCode |-> guid]

Records ==
  {Record(CS_INTERFACE, VC_EXTENSION_UNIT, u, g) : u \in UnitIds, g \in Guids}
  \cup {Record(VS_LOGITECH_TYPE, VS_LOGITECH_EXTENSION_UNIT, u, g) :
          u \in UnitIds, g \in Guids}
  \cup {Record(CS_INTERFACE, VC_HEADER, 1, kMotorGuid),
        Record(VS_LOGITECH_TYPE, VC_EXTENSION_UNIT, 2, kMotorGuid),
        Record(USB_ENDPOINT_DESCRIPTOR, VC_EXTENSION_UNIT, 1, kHwControlGuid),
        Record(CS_ENDPOINT, VS_LOGITECH_EXTENSION_UNIT, 2, kHwControlGuid)}

(***************************************************************************)
(* The walk harness: the descriptor loop of scanDescriptors on a fresh     *)
(* Camera, one FindNextAssociatedDescriptor result per step.               *)
(***************************************************************************)
InitWalk ==
  /\ wCamera = CameraDefault
  /\ walked = <<>>
  /\ wDone = FALSE

\* FindNextAssociatedDescriptor returns a record: one pass of the loop
Walk ==
  /\ ~wDone
  /\ Len(walked) < MaxWalk
  /\ \E descriptor \in Records :
       /\ wCamera' = WalkRecord(wCamera, descriptor)
       /\ walked' = Append(walked, descriptor)
  /\ UNCHANGED wDone
  /\ UNCHANGED <<storVars, iterVars, camVars, mainVars, reqVars>>

\* FindNextAssociatedDescriptor returns NULL: the loop ends
WalkEnd ==
  /\ ~wDone
  /\ wDone' = TRUE
  /\ UNCHANGED <<wCamera, walked>>
  /\ UNCHANGED <<storVars, iterVars, camVars, mainVars, reqVars>>

NextWalk ==
  \/ Walk
  \/ WalkEnd

(***************************************************************************)
(* Request (orbitctl.cpp 609-700), sendControlRequest and USBInterfaceOpen *)
(* (321-361).  A Request is [unit_, selector_, data_, length_]; data_ is   *)
(* the bytes setData copied (the rest of the 32-byte array is never        *)
(* read).                                                                  *)
(***************************************************************************)
kMotorUnit == 0
kHwControlUnit == 1
DataSize == 32       \* sizeof(data_)

UVC_SET_CUR == 1
LXU_MOTOR_PANTILT_RELATIVE_CONTROL == 1
LXU_MOTOR_PANTILT_RELATIVE_CONTROL_ENABLE == 128     \* 0x80
LXU_MOTOR_PANTILT_RESET_CONTROL == 2
LXU_MOTOR_PANTILT_RESET_CONTROL_VALUE == 3
LXU_HW_CONTROL_LED1 == 1
LXU_HW_CONTROL_LED1_MODE_OFF == 0
LXU_HW_CONTROL_LED1_MODE_ON == 1
LXU_HW_CONTROL_LED1_MODE_AUTO == 3

\* conversion to uint8_t
ToUInt8(x) == x % 256

\* A conversion that keeps the low byte only.
ToUInt16Narrow(x) == x % 256

\* conversion to UInt16
ToUInt16(x) == x % 65536

\* Request req; no member is initialised
RequestDefault ==
  [unit_ |-> Indet, selector_ |-> Indet, data_ |-> <<>>, length_ |-> Indet]

\* A setData that stores unit and selector before it tests the length.
setDataLate(rq, unit, selector, data, length) ==
  IF length > DataSize
  THEN [req |-> [rq EXCEPT !.unit_ = unit, !.selector_ = selector],
        threw |-> TRUE]
  ELSE [req |-> [unit_ |-> unit, selector_ |-> selector,
                 data_ |-> SubSeq(data, 1, length), length_ |-> length],
        threw |-> FALSE]

\* setData(unit, selector, data, length): throws when length exceeds
\* sizeof(data_), else stores the four members
setData(rq, unit, selector, data, length) ==
  IF length > DataSize
  THEN [req |-> rq, threw |-> TRUE]
  ELSE [req |-> [unit_ |-> unit, selector_ |-> selector,
                 data_ |-> SubSeq(data, 1, length), length_ |-> length],
        threw |-> FALSE]

\* A magnitude without the offset of the positive direction.
MagnitudeNoOffset(delta) == ToUInt8(delta)

\* value.left = left < 0 ? left : left - 1, stored in a uint8_t
Magnitude(delta) == ToUInt8(IF delta < 0 THEN delta ELSE delta - 1)

\* panTiltRelative(left, up): LogitechMotorRequest is the four bytes
\* leftEnable, left, upEnable, up, zeroed by memset
panTiltRelative(rq, left, up) ==
  LET value == <<IF left # 0 THEN LXU_MOTOR_PANTILT_RELATIVE_CONTROL_ENABLE ELSE 0,
                 IF left # 0 THEN Magnitude(left) ELSE 0,
                 IF up # 0 THEN LXU_MOTOR_PANTILT_RELATIVE_CONTROL_ENABLE ELSE 0,
                 IF up # 0 THEN Magnitude(up) ELSE 0>> IN
  setData(rq, kMotorUnit, LXU_MOTOR_PANTILT_RELATIVE_CONTROL, value, Len(value))

\* panTiltReset()
panTiltReset(rq) ==
  LET value == <<LXU_MOTOR_PANTILT_RESET_CONTROL_VALUE>> IN
  setData(rq, kMotorUnit, LXU_MOTOR_PANTILT_RESET_CONTROL, value, Len(value))

\* A conversion that leaves the frequency in host order.
CFSwapInt16None(x) == x

\* CFSwapInt16HostToBig on a little-endian host: the two bytes exchanged
CFSwapInt16HostToBig(x) == (x % 256) * 256 + (x \div 256)

\* ledControl(mode, frequency): LogitechLedRequest is packed, the mode byte
\* and then the two bytes of the swapped frequency as the host stores them,
\* low byte first
ledControl(rq, mode, frequency) ==
  LET swapped == CFSwapInt16HostToBig(frequency)
      value == <<mode, swapped % 256, swapped \div 256>> IN
  setData(rq, kHwControlUnit, LXU_HW_CONTROL_LED1, value, Len(value))

\* the HRESULT of an OS call that succeeds or fails
HResultOf(ok) == IF ok THEN "S_OK" ELSE "E_FAIL"

\* A sendControlRequest that closes only after a transfer that succeeded.
sendControlRequestNoUnwind(id, interfaceNumber, unitId, selector, data, length, os, lg) ==
  LET controlRequest ==
        [bmRequestType |-> <<"kUSBOut", "kUSBClass", "kUSBInterface">>,
         bRequest |-> UVC_SET_CUR,
         wValue |-> ToUInt16(selector * 256),
         wIndex |-> ToUInt16(unitId * 256 + interfaceNumber),
         wLength |-> length,
         wLenDone |-> 0,
         pData |-> data]
      logO == Append(lg, <<"USBInterfaceOpen", "interface", "element", id>>)
      logT == Append(logO, <<"ControlRequest", "interface", "element", id>>)
      logC == Append(logT, <<"USBInterfaceClose", "interface", "element", id>>)
  IN
  IF hrCheck(HResultOf(os.openOK))
  THEN [log |-> logO, transfers |-> <<>>, status |-> "throw"]
  ELSE IF hrCheck(HResultOf(os.xferOK))
  THEN [log |-> logT, transfers |-> <<controlRequest>>, status |-> "throw"]
  ELSE [log |-> logC, transfers |-> <<controlRequest>>,
        status |-> IF hrCheck(HResultOf(os.closeOK)) THEN "terminate" ELSE "ok"]

\* A sendControlRequest that issues a failed transfer a second time.
sendControlRequestRetry(id, interfaceNumber, unitId, selector, data, length, os, lg) ==
  LET controlRequest ==
        [bmRequestType |-> <<"kUSBOut", "kUSBClass", "kUSBInterface">>,
         bRequest |-> UVC_SET_CUR,
         wValue |-> ToUInt16(selector * 256),
         wIndex |-> ToUInt16(unitId * 256 + interfaceNumber),
         wLength |-> length,
         wLenDone |-> 0,
         pData |-> data]
      logO == Append(lg, <<"USBInterfaceOpen", "interface", "element", id>>)
      logT == Append(logO, <<"ControlRequest", "interface", "element", id>>)
      logR == IF os.xferOK THEN logT
              ELSE Append(logT, <<"ControlRequest", "interface", "element", id>>)
      logC == Append(logR, <<"USBInterfaceClose", "interface", "element", id>>)
      sent == IF os.xferOK THEN <<controlRequest>>
              ELSE <<controlRequest, controlRequest>>
  IN
  IF hrCheck(HResultOf(os.openOK))
  THEN [log |-> logO, transfers |-> <<>>, status |-> "throw"]
  ELSE IF hrCheck(HResultOf(os.closeOK))
  THEN [log |-> logC, transfers |-> sent, status |-> "terminate"]
  ELSE [log |-> logC, transfers |-> sent,
        status |-> IF hrCheck(HResultOf(os.xferOK)) THEN "throw" ELSE "ok"]

\* sendControlRequest(interface, interfaceNumber, unitId, selector, data,
\* length): USBInterfaceOpen open{interface}; ControlRequest; ~open.  os is
\* whether the three OS calls succeed: [openOK, xferOK, closeOK].  The
\* destructor of open throws when USBInterfaceClose fails: std::terminate.
\* (unitId << 8) | interfaceNumber: the low byte of unitId << 8 is 0, so the
\* bitwise or of the two bytes is their sum.
sendControlRequest(id, interfaceNumber, unitId, selector, data, length, os, lg) ==
  LET controlRequest ==
        [bmRequestType |-> <<"kUSBOut", "kUSBClass", "kUSBInterface">>,
         bRequest |-> UVC_SET_CUR,
         wValue |-> ToUInt16(selector * 256),
         wIndex |-> ToUInt16(unitId * 256 + interfaceNumber),
         wLength |-> length,
         wLenDone |-> 0,
         pData |-> data]
      logO == Append(lg, <<"USBInterfaceOpen", "interface", "element", id>>)
      logT == Append(logO, <<"ControlRequest", "interface", "element", id>>)
      logC == Append(logT, <<"USBInterfaceClose", "interface", "element", id>>)
  IN
  IF hrCheck(HResultOf(os.openOK))
  THEN [log |-> logO, transfers |-> <<>>, status |-> "throw"]
  ELSE IF hrCheck(HResultOf(os.closeOK))
  THEN [log |-> logC, transfers |-> <<controlRequest>>, status |-> "terminate"]
  ELSE [log |-> logC, transfers |-> <<controlRequest>>,
        status |-> IF hrCheck(HResultOf(os.xferOK)) THEN "throw" ELSE "ok"]

\* what a byte that was never written is taken to hold when it is read:
\* the least and the greatest value of a byte, and one a unit id also has
IndetBytes == {0, 1, 255}

\* reading a byte that may never have been written: any value
ReadByte(v, indet) == IF v = Indet THEN indet ELSE v

\* Request::send(camera): the switch on unit_, then sendControlRequest with
\* camera.interface.ref()
RequestSend(rq, cam, indet, os, lg) ==
  LET cam1 == [cam EXCEPT !.interface = ref(@)]
      stored == CASE rq.unit_ = kMotorUnit -> cam.motorUnit
                  [] rq.unit_ = kHwControlUnit -> cam.hwControlUnit
                  [] OTHER -> Indet
      r == sendControlRequest(cam1.interface.val,
                              ReadByte(cam.videoInterfaceNumber, indet),
                              ReadByte(stored, indet),
                              rq.selector_, rq.data_, rq.length_, os, lg)
  IN
  IF rq.unit_ \notin {kMotorUnit, kHwControlUnit}
  THEN \* default: throw std::runtime_error("Unknown unit")
       [camera |-> cam, log |-> lg, transfers |-> <<>>, status |-> "throw"]
  ELSE [camera |-> cam1, log |-> r.log, transfers |-> r.transfers,
        status |-> r.status]

(***************************************************************************)
(* The Request harness: a client makes one build call on a Request, fresh  *)
(* or built before, and sends it to a Camera whose interface is valid.  An *)
(* exception of the build call leaves the client.                          *)
(***************************************************************************)
MaxPayload == 34   \* the longest payload handed to setData

\* the bytes the harness draws unit ids, interface numbers and selectors from
ByteSamples == {0, 1, 128, 255}

\* the selectors handed to setData
SelectorSamples == {0, 1, 255}

\* int8_t deltas
DeltaSamples == {-128, -127, -2, -1, 0, 1, 2, 126, 127}

\* uint8_t modes and uint16_t frequencies
ModeSamples == {0, 1, 3, 255}

FrequencySamples == {0, 1, 20, 255, 256, 4660, 65535}

\* a payload of n bytes
Payload(n, seed) == [i \in 1..n |-> (seed + i) % 256]

\* the (motorUnit, hwControlUnit) of the cameras of the harness
CameraUnits == {<<0, 255>>, <<1, 2>>, <<128, 128>>, <<255, 0>>}

NoOp == [op |-> "none", a |-> 0, b |-> 0, data |-> <<>>]

NoSend ==
  [called |-> FALSE, camera |-> CameraEmpty,
   os |-> [openOK |-> TRUE, xferOK |-> TRUE, closeOK |-> TRUE],
   log |-> <<>>, transfers |-> <<>>, status |-> "none"]

\* the outcomes of the three OS calls of sendControlRequest; the calls after
\* a failed open are not made
OsOutcomes ==
  {[openOK |-> FALSE, xferOK |-> TRUE, closeOK |-> TRUE]}
  \cup [openOK : {TRUE}, xferOK : BOOLEAN, closeOK : BOOLEAN]

\* the Requests the build call is made on: Request req; and two built ones
StartRequests ==
  {RequestDefault, panTiltReset(RequestDefault).req,
   ledControl(RequestDefault, LXU_HW_CONTROL_LED1_MODE_ON, 20).req}

InitReq ==
  /\ rReq \in StartRequests
  /\ rPrev = rReq
  /\ rOp = NoOp
  /\ rPc = "build"
  /\ rSent = NoSend

\* what a build call that returned b leaves behind
AfterBuild(op, a, b, data, built) ==
  /\ rPrev' = rReq
  /\ rReq' = built.req
  /\ rOp' = [op |-> op, a |-> a, b |-> b, data |-> data]
  /\ rPc' = IF built.threw THEN "failed" ELSE "built"
  /\ UNCHANGED rSent
  /\ UNCHANGED <<storVars, iterVars, camVars, walkVars, mainVars>>

BuildPanTiltRelative ==
  /\ rPc = "build"
  /\ \E left \in DeltaSamples, up \in DeltaSamples :
       AfterBuild("panTiltRelative", left, up, <<>>,
                  panTiltRelative(rReq, left, up))

BuildPanTiltReset ==
  /\ rPc = "build"
  /\ AfterBuild("panTiltReset", 0, 0, <<>>, panTiltReset(rReq))

BuildLedControl ==
  /\ rPc = "build"
  /\ \E mode \in ModeSamples, frequency \in FrequencySamples :
       AfterBuild("ledControl", mode, frequency, <<>>,
                  ledControl(rReq, mode, frequency))

BuildSetData ==
  /\ rPc = "build"
  /\ \E unit \in {kMotorUnit, kHwControlUnit}, selector \in SelectorSamples,
        length \in 0..MaxPayload :
       AfterBuild("setData", unit, selector, Payload(length, 250),
                  setData(rReq, unit, selector, Payload(length, 250), length))

\* camera.send(req) on a built request
SendRequest ==
  /\ rPc = "built"
  /\ \E units \in CameraUnits, n \in ByteSamples, os \in OsOutcomes :
       LET cam == [interface |-> [isValid |-> TRUE, val |-> 1],
                   videoInterfaceNumber |-> n,
                   motorUnit |-> units[1], hwControlUnit |-> units[2]]
       IN
       \E r \in {RequestSend(rReq, cam, 0, os, <<>>)} :
         rSent' = [called |-> TRUE, camera |-> cam, os |-> os, log |-> r.log,
                   transfers |-> r.transfers, status |-> r.status]
  /\ rPc' = "sent"
  /\ UNCHANGED <<rReq, rPrev, rOp>>
  /\ UNCHANGED <<storVars, iterVars, camVars, walkVars, mainVars>>

NextReq ==
  \/ BuildPanTiltRelative
  \/ BuildPanTiltReset
  \/ BuildLedControl
  \/ BuildSetData
  \/ SendRequest

(***************************************************************************)
(* The program (orbitctl.cpp 438-607 scanDescriptors, 708-782 usage and    *)
(* main), a step at a time.  What the OS answers is chosen at the step     *)
(* that asks.                                                              *)
(***************************************************************************)
\* the command lines of the model; the first word is the program name
CommandLines ==
  {<<"orbitctl">>, <<"orbitctl", "scan">>, <<"orbitctl", "scan", "now">>,
   <<"orbitctl", "reset">>, <<"orbitctl", "reset", "now">>,
   <<"orbitctl", "pan">>, <<"orbitctl", "pan", "left">>,
   <<"orbitctl", "pan", "right">>, <<"orbitctl", "pan", "up">>,
   <<"orbitctl", "pan", "left", "left">>,
   <<"orbitctl", "tilt", "up">>, <<"orbitctl", "tilt", "down">>,
   <<"orbitctl", "tilt", "left">>,
   <<"orbitctl", "led", "on">>, <<"orbitctl", "led", "off">>,
   <<"orbitctl", "led", "auto">>, <<"orbitctl", "led", "blink">>,
   <<"orbitctl", "focus">>}

\* the outcomes of main's argument handling: usage(), display only, or a
\* built request (b is what setData returned)
Usage ==
  [usage |-> TRUE, display |-> FALSE, req |-> RequestDefault, threw |-> FALSE]

Display ==
  [usage |-> FALSE, display |-> TRUE, req |-> RequestDefault, threw |-> FALSE]

Built(b) ==
  [usage |-> FALSE, display |-> FALSE, req |-> b.req, threw |-> b.threw]

\* main, lines 720-767; argv[k] of the code is argv[k + 1] here
Parse(argv) ==
  LET argc == Len(argv) IN
  IF argc < 2 THEN Usage
  ELSE
    LET cmd == argv[2] IN
    CASE cmd = "scan" -> Display
      [] cmd = "reset" ->
           IF argc # 2 THEN Usage ELSE Built(panTiltReset(RequestDefault))
      [] cmd = "pan" ->
           IF argc # 3 THEN Usage
           ELSE CASE argv[3] = "left" ->
                       Built(panTiltRelative(RequestDefault, 1, 0))
                  [] argv[3] = "right" ->
                       Built(panTiltRelative(RequestDefault, -1, 0))
                  [] OTHER -> Usage
      [] cmd = "tilt" ->
           IF argc # 3 THEN Usage
           ELSE CASE argv[3] = "up" ->
                       Built(panTiltRelative(RequestDefault, 0, 1))
                  [] argv[3] = "down" ->
                       Built(panTiltRelative(RequestDefault, 0, -1))
                  [] OTHER -> Usage
      [] cmd = "led" ->
           IF argc # 3 THEN Usage
           ELSE CASE argv[3] = "off" ->
                       Built(ledControl(RequestDefault,
                                        LXU_HW_CONTROL_LED1_MODE_OFF, 0))
                  [] argv[3] = "on" ->
                       Built(ledControl(RequestDefault,
                                        LXU_HW_CONTROL_LED1_MODE_ON, 0))
                  [] argv[3] = "auto" ->
                       Built(ledControl(RequestDefault,
                                        LXU_HW_CONTROL_LED1_MODE_AUTO, 0))
                  [] OTHER -> Usage
      [] OTHER -> Usage

\* the devices and interfaces a run of the program can meet
MainDeviceElems == {e \in DeviceElems : e.out \in {"ok", "nores", "plugerr"}}

InterfaceElems == [out : {"ok", "nores", "qnull"}]

\* the interface numbers GetInterfaceNumber can store
InterfaceNumbers == {0, 2}

\* some IOObjectRelease of lg on an object of a T cursor failed
ReleaseFailed(lg, T, bad) ==
  \E k \in 1..Len(lg) : /\ lg[k][1] = "IOObjectRelease"
                        /\ lg[k][2] = T
                        /\ <<lg[k][3], lg[k][4]>> \in bad

\* every OS call of an enumeration succeeded or reported resource
\* exhaustion: r is what the enumeration returned over elems
EnumOK(T, elems, createOK, bad, r) ==
  /\ createOK
  /\ ~ReleaseFailed(r.log, T, bad)
  /\ \A i \in 1..r.pos : elems[i].out \in {"ok", "nores"}
  /\ \A k \in 1..Len(r.log) :
       /\ (r.log[k][1] = "GetDeviceVendor" /\ r.log[k][2] = T)
            => elems[r.log[k][4]].rd # "vfail"
       /\ (r.log[k][1] = "GetDeviceProduct" /\ r.log[k][2] = T)
            => elems[r.log[k][4]].rd # "pfail"

\* no device the enumeration can yield has the camera's ids
NoCamera(devs) ==
  \A i \in 1..Len(devs) :
    ~(devs[i].out = "ok" /\ devs[i].vendor = VendorId
        /\ devs[i].product = ProductId)

\* the interface cursor holds no interface the enumeration can yield
NoInterface(ifs) == \A i \in 1..Len(ifs) : ifs[i].out = "nores"

\* ~Storage<IOUSBDeviceInterface**> / ~Storage<IOUSBInterfaceInterface220**>
\* of a local of kind T: the log after it
DropLocal(T, s, lg) ==
  lg \o CleanLog(T, T, "element", release(T, s, TRUE).cleaned)

InitMain ==
  /\ args \in CommandLines
  /\ pc = "main"
  /\ display = FALSE
  /\ req = RequestDefault
  /\ device = StorageDefault
  /\ camera = CameraDefault
  /\ calls = <<>>
  /\ transfers = <<>>
  /\ reported = <<>>
  /\ exitStatus = "running"
  /\ nWalked = 0
  /\ env = [ok |-> TRUE, earlierOK |-> TRUE, noMatch |-> FALSE,
            noInterface |-> FALSE, sendCalled |-> FALSE]

\* main, lines 720-767: usage() prints and calls exit(1); an exception of
\* setData would leave main outside its try block
ParseArgs ==
  /\ pc = "main"
  /\ LET p == Parse(args) IN
     /\ display' = p.display
     /\ req' = p.req
     /\ reported' = IF p.usage THEN Append(reported, "usage") ELSE reported
     /\ pc' = CASE p.usage -> "done"
                [] p.threw -> "terminated"
                [] OTHER -> "scanDescriptors"
     /\ exitStatus' = CASE p.usage -> "EXIT_1"
                        [] p.threw -> "SIGABRT"
                        [] OTHER -> exitStatus
  /\ UNCHANGED <<args, device, camera, calls, transfers, nWalked, env>>
  /\ UNCHANGED <<storVars, iterVars, camVars, walkVars, reqVars>>

\* scanDescriptors, lines 439-443
ScanFindCamera ==
  /\ pc = "scanDescriptors"
  /\ \E devs \in SeqUpTo(MainDeviceElems, MaxDevices),
        createOK \in BOOLEAN, rhsFirst \in BOOLEAN :
       \E bad \in SubsetsUpTo(Releasable(Len(devs)), MaxBad) :
       \E r \in {getCamera(devs, createOK, calls, bad, rhsFirst)} :
         LET found == r.status = "ok" /\ r.device.isValid IN
         /\ calls' = r.log
         /\ device' = IF found THEN r.device ELSE device
         /\ camera' = IF r.status = "ok" /\ ~found THEN CameraEmpty ELSE camera
         /\ reported' = IF r.status = "ok" /\ ~found
                        THEN Append(reported, "No Logitech Orbit AF found")
                        ELSE reported
         /\ pc' = CASE r.status = "terminate" -> "terminated"
                    [] r.status = "throw" -> "caught"
                    [] found -> "interfaces"
                    [] OTHER -> "scanned"
         /\ exitStatus' = IF r.status = "terminate" THEN "SIGABRT" ELSE exitStatus
         /\ env' = [env EXCEPT
                      !.ok = @ /\ EnumOK("device", devs, createOK, bad, r),
                      !.earlierOK =
                        @ /\ EnumOK("device", devs, createOK, bad, r),
                      !.noMatch = NoCamera(devs)]
  /\ UNCHANGED <<args, display, req, transfers, nWalked>>
  /\ UNCHANGED <<storVars, iterVars, camVars, walkVars, reqVars>>

\* scanDescriptors, lines 445-457, with the device getCamera returned and
\* with b what ifaces.begin() does.  The locals are destroyed in the order
\* camera, it, device.
FirstInterface(dev, b, bad) ==
  LET \* USBVideoInterfaces ifaces{device.ref()};  auto it = ifaces.begin();
      dev1 == ref(dev)
      \* Camera camera;  camera.interface = std::move(*it);
      m == MoveFrom(b.it.element_)
      cam1 == [CameraDefault EXCEPT !.interface = m.dst]
      \* it = std::move(ifaces.end());
      a == IterMoveAssign("interface", [b.it EXCEPT !.element_ = m.src],
                          IterDefault, b.log, bad)
      \* unwinding when the assignment throws: ~Camera, then ~IOIterator
      u == IterDestroy("interface", a.it,
                       DropLocal("interface", cam1.interface, a.log), bad)
  IN
  CASE b.status = "terminate" ->
         [camera |-> CameraDefault, device |-> dev1, log |-> b.log,
          status |-> "terminate", said |-> <<>>]
    [] b.status = "throw" ->
         [camera |-> CameraDefault, device |-> release("device", dev1, TRUE).s,
          log |-> DropLocal("device", dev1, b.log),
          status |-> "throw", said |-> <<>>]
    [] b.status = "ok" /\ IterEq(b.it, IterDefault) ->
         \* printf("No video interfaces found\n"); return {};
         [camera |-> CameraEmpty, device |-> release("device", dev1, TRUE).s,
          log |-> DropLocal("device", dev1,
                            IterDestroy("interface", b.it, b.log, bad).log),
          status |-> "none", said |-> <<"No video interfaces found">>]
    [] b.status = "ok" /\ ~IterEq(b.it, IterDefault) /\ a.status = "throw" ->
         IF u.status = "terminate"
         THEN [camera |-> cam1, device |-> dev1, log |-> u.log,
               status |-> "terminate", said |-> <<>>]
         ELSE [camera |-> cam1, device |-> release("device", dev1, TRUE).s,
               log |-> DropLocal("device", dev1, u.log),
               status |-> "throw", said |-> <<>>]
    [] OTHER ->
         \* device.release();
         [camera |-> cam1, device |-> release("device", dev1, TRUE).s,
          log |-> DropLocal("device", dev1, a.log),
          status |-> "ok", said |-> <<>>]

ScanFirstInterface ==
  /\ pc = "interfaces"
  /\ \E ifs \in SeqUpTo(InterfaceElems, MaxInterfaces),
        createOK \in BOOLEAN, rhsFirst \in BOOLEAN :
       \E bad \in SubsetsUpTo(Releasable(Len(ifs)), MaxBad) :
       \E b \in {IterBegin("interface", createOK, ifs, calls, bad, rhsFirst)} :
       \E r \in {FirstInterface(device, b, bad)} :
         /\ calls' = r.log
         /\ device' = r.device
         /\ camera' = IF r.status \in {"ok", "none"} THEN r.camera ELSE camera
         /\ reported' = reported \o r.said
         /\ pc' = CASE r.status = "terminate" -> "terminated"
                    [] r.status = "throw" -> "caught"
                    [] r.status = "none" -> "scanned"
                    [] OTHER -> "interfaceNumber"
         /\ exitStatus' = IF r.status = "terminate" THEN "SIGABRT" ELSE exitStatus
         /\ env' = [env EXCEPT
                      !.ok = /\ @
                             /\ EnumOK("interface", ifs, createOK, bad,
                                       [log |-> r.log, pos |-> b.pos]),
                      !.earlierOK =
                        /\ @
                        /\ EnumOK("interface", ifs, createOK, bad,
                                  [log |-> r.log, pos |-> b.pos]),
                      !.noInterface = NoInterface(ifs)]
  /\ UNCHANGED <<args, display, req, transfers, nWalked>>
  /\ UNCHANGED <<storVars, iterVars, camVars, walkVars, reqVars>>

\* scanDescriptors, lines 459-465: GetInterfaceNumber writes the number;
\* hrCheck throws when it fails, and unwinding destroys camera
ScanInterfaceNumber ==
  /\ pc = "interfaceNumber"
  /\ \E ok \in BOOLEAN, n \in InterfaceNumbers :
       LET cam1 == [camera EXCEPT !.interface = ref(@)]
           lg == Append(calls, <<"GetInterfaceNumber", "interface", "element",
                                 cam1.interface.val>>) IN
       IF hrCheck(HResultOf(ok))
       THEN /\ camera' = [cam1 EXCEPT
                            !.interface = release("interface", @, TRUE).s]
            /\ calls' = DropLocal("interface", cam1.interface, lg)
            /\ pc' = "caught"
            /\ env' = [env EXCEPT !.ok = FALSE, !.earlierOK = FALSE]
       ELSE /\ camera' = [cam1 EXCEPT !.videoInterfaceNumber = n]
            /\ calls' = lg
            /\ pc' = "walk"
            /\ env' = env
  /\ UNCHANGED <<args, display, req, device, transfers, reported, exitStatus,
                 nWalked>>
  /\ UNCHANGED <<storVars, iterVars, camVars, walkVars, reqVars>>

\* one pass of the descriptor loop (467-604): FindNextAssociatedDescriptor
\* returns a record
ScanWalkRecord ==
  /\ pc = "walk"
  /\ nWalked < MaxWalk
  /\ \E descriptor \in Records :
       camera' = WalkRecord([camera EXCEPT !.interface = ref(@)], descriptor)
  /\ calls' = Append(calls, <<"FindNextAssociatedDescriptor", "interface",
                              "element", camera.interface.val>>)
  /\ nWalked' = nWalked + 1
  /\ UNCHANGED <<args, pc, display, req, device, transfers, reported,
                 exitStatus, env>>
  /\ UNCHANGED <<storVars, iterVars, camVars, walkVars, reqVars>>

\* FindNextAssociatedDescriptor returns NULL; return std::move(camera);
\* (606): main's camera takes the interface and copies of the three bytes
ScanWalkEnd ==
  /\ pc = "walk"
  /\ camera' = [camera EXCEPT !.interface = MoveFrom(ref(@)).dst]
  /\ calls' = Append(calls, <<"FindNextAssociatedDescriptor", "interface",
                              "element", camera.interface.val>>)
  /\ pc' = "scanned"
  /\ UNCHANGED <<args, display, req, device, transfers, reported, exitStatus,
                 nWalked, env>>
  /\ UNCHANGED <<storVars, iterVars, camVars, walkVars, reqVars>>

\* main, lines 770-776 and 782, with the Camera scanDescriptors returned;
\* leaving the try block, by return or by an exception, destroys camera
MainSend ==
  /\ pc = "scanned"
  /\ \E indet \in IndetBytes, openOK \in BOOLEAN, xferOK \in BOOLEAN,
        closeOK \in BOOLEAN :
       LET sends == camera.interface.isValid /\ ~display IN
       \E r \in {IF sends
                 THEN RequestSend(req, camera, indet,
                                  [openOK |-> openOK, xferOK |-> xferOK,
                                   closeOK |-> closeOK], calls)
                 ELSE [camera |-> camera, log |-> calls, transfers |-> <<>>,
                       status |-> "ok"]} :
       /\ transfers' = transfers \o r.transfers
       /\ env' = [env EXCEPT !.sendCalled = sends,
                             !.ok = @ /\ (sends => openOK /\ xferOK /\ closeOK),
                             !.earlierOK = @ /\ (sends => openOK)]
       /\ IF r.status = "terminate"
          THEN /\ camera' = r.camera
               /\ calls' = r.log
               /\ pc' = "terminated"
               /\ exitStatus' = "SIGABRT"
          ELSE /\ camera' = [r.camera EXCEPT
                               !.interface = release("interface", @, TRUE).s]
               /\ calls' = DropLocal("interface", r.camera.interface, r.log)
               /\ pc' = IF r.status = "throw" THEN "caught" ELSE "done"
               /\ exitStatus' =
                    CASE r.status = "throw" -> exitStatus
                      [] ~camera.interface.isValid -> "EXIT_1"
                      [] OTHER -> "EXIT_0"
  /\ UNCHANGED <<args, display, req, device, reported, nWalked>>
  /\ UNCHANGED <<storVars, iterVars, camVars, walkVars, reqVars>>

\* main, lines 777-780: the handler prints the failure and returns 1
MainCatch ==
  /\ pc = "caught"
  /\ reported' = Append(reported, "Failure")
  /\ pc' = "done"
  /\ exitStatus' = "EXIT_1"
  /\ UNCHANGED <<args, display, req, device, camera, calls, transfers,
                 nWalked, env>>
  /\ UNCHANGED <<storVars, iterVars, camVars, walkVars, reqVars>>

NextMain ==
  \/ ParseArgs
  \/ ScanFindCamera
  \/ ScanFirstInterface
  \/ ScanInterfaceNumber
  \/ ScanWalkRecord
  \/ ScanWalkEnd
  \/ MainSend
  \/ MainCatch

(***************************************************************************)
(* The specifications.                                                     *)
(***************************************************************************)
IdleStorage ==
  /\ sKind = "io_object"
  /\ wrap = [w \in Wrappers |-> Unborn]
  /\ cleanCalls = [v \in RawVals |-> 0]
  /\ adoptions = [v \in RawVals |-> 0]
  /\ issued = 0
  /\ sLast = NoLast
  /\ sDead = FALSE

IdleIter ==
  /\ iT = "device"
  /\ iElems = <<>>
  /\ iBad = {}
  /\ iPos = 0
  /\ iIt = IterDefault
  /\ iLife = "none"
  /\ iThrew = FALSE
  /\ iYielded = <<>>
  /\ iLog = <<>>

IdleCam ==
  /\ cDevs = <<>>
  /\ cOut = NoCall

IdleWalk == InitWalk

IdleReq ==
  /\ rReq = RequestDefault
  /\ rPrev = RequestDefault
  /\ rOp = NoOp
  /\ rPc = "build"
  /\ rSent = NoSend

IdleMain ==
  /\ args = <<"orbitctl">>
  /\ pc = "main"
  /\ display = FALSE
  /\ req = RequestDefault
  /\ device = StorageDefault
  /\ camera = CameraDefault
  /\ calls = <<>>
  /\ transfers = <<>>
  /\ reported = <<>>
  /\ exitStatus = "running"
  /\ nWalked = 0
  /\ env = [ok |-> TRUE, earlierOK |-> TRUE, noMatch |-> FALSE,
            noInterface |-> FALSE, sendCalled |-> FALSE]

vars == <<storVars, iterVars, camVars, walkVars, reqVars, mainVars>>

StorageHarnessInit ==
  InitStorage /\ IdleIter /\ IdleCam /\ IdleWalk /\ IdleReq /\ IdleMain

SpecStorage == StorageHarnessInit /\ [][NextStorage]_vars

\* the Storage harness over the three pointer kinds, whose cleaners ignore
\* the result of their release call and so never throw
PointerHarnessInit == StorageHarnessInit /\ sKind # "io_object"

SpecStoragePtr == PointerHarnessInit /\ [][NextStorage]_vars

IterHarnessInit ==
  InitIter /\ IdleStorage /\ IdleCam /\ IdleWalk /\ IdleReq /\ IdleMain

SpecIter == IterHarnessInit /\ [][NextIter]_vars

CamHarnessInit ==
  InitCam /\ IdleStorage /\ IdleIter /\ IdleWalk /\ IdleReq /\ IdleMain

SpecCam == CamHarnessInit /\ [][NextCam]_vars

WalkHarnessInit ==
  InitWalk /\ IdleStorage /\ IdleIter /\ IdleCam /\ IdleReq /\ IdleMain

SpecWalk == WalkHarnessInit /\ [][NextWalk]_vars

RequestHarnessInit ==
  InitReq /\ IdleStorage /\ IdleIter /\ IdleCam /\ IdleWalk /\ IdleMain

SpecRequest == RequestHarnessInit /\ [][NextReq]_vars

ProgramInit ==
  InitMain /\ IdleStorage /\ IdleIter /\ IdleCam /\ IdleWalk /\ IdleReq

SpecProgram == ProgramInit /\ [][NextMain]_vars

(***************************************************************************)
(* The claims.                                                             *)
(***************************************************************************)

\* the live wrappers of the Storage harness that report isValid() for v
OwnersOf(v) ==
  {w \in Wrappers : Live(w) /\ wrap[w].isValid /\ wrap[w].val = v}

\* C2: over any sequence of Storage operations, ref()/ptr() on a moved-from
\* wrapper included, at most one live wrapper reports isValid() for a given
\* raw value, and clean is invoked at most once per raw value.
C2_SoleOwnerCleanedOnce ==
  \A v \in RawVals : Cardinality(OwnersOf(v)) <= 1 /\ cleanCalls[v] <= 1

\* C3: a raw value that was handed out but never adopted is never cleaned;
\* a raw value that was adopted (once) is cleaned at most once whatever
\* release, move and destroy operations follow, and exactly once when no
\* live wrapper owns it any more.
C3_CleanedOncePerAdoption ==
  \A v \in 1..issued :
    /\ adoptions[v] = 0 => cleanCalls[v] = 0
    /\ adoptions[v] = 1 => cleanCalls[v] <= 1
    /\ adoptions[v] = 1 /\ OwnersOf(v) = {} => cleanCalls[v] = 1

\* C4: a completed move construction or move assignment between two
\* wrappers leaves the source not valid and gives the destination the
\* source's prior raw value and ownership state; destroying a moved-from
\* wrapper invokes no cleanup.
C4_MoveTransfersOwnership ==
  /\ (sLast.op \in {"MoveConstruct", "MoveAssign"} /\ ~sLast.threw
        /\ sLast.src # sLast.dst)
       => /\ ~wrap[sLast.src].isValid
          /\ wrap[sLast.dst].val = sLast.srcVal
          /\ wrap[sLast.dst].isValid = sLast.srcValid
  /\ (sLast.op = "Destroy" /\ sLast.wasMovedFrom) => sLast.cleaned = 0

\* C4's case: the source of a move from an owning wrapper was destroyed
\* while the destination still owns the value.
C4_Witness ==
  /\ sLast.op = "Destroy"
  /\ sLast.wasMovedFrom
  /\ sLast.srcVal \in RawVals
  /\ OwnersOf(sLast.srcVal) # {}
  /\ cleanCalls[sLast.srcVal] = 0

\* the cursor of the iterator harness was created by the OS call of begin()
CursorCreated == iLog # <<>> /\ iLog[1][4] = 1

\* the indexes up to n of the elements whose plugin and interface are made
OkUpTo(n) ==
  SelectSeq([i \in 1..Len(iElems) |-> i],
            LAMBDA i : i <= n /\ iElems[i].out = "ok")

AtEnd == IterEq(iIt, IterDefault)

\* C5: over a cursor whose plugin creations either succeed or report
\* resource exhaustion (every other OS call succeeding), the iterator
\* yields exactly the non-exhausted elements, each once and in cursor
\* order, then reaches the terminal state, and raises no error.
C5_SkipsExhaustedElements ==
  (CursorCreated /\ iBad = {}
     /\ \A i \in 1..Len(iElems) : iElems[i].out \in {"ok", "nores"})
  => /\ ~iThrew
     /\ iLife \notin {"thrown", "terminated"}
     /\ iYielded = OkUpTo(iPos)
     /\ (iLife = "live" /\ AtEnd) => iPos = Len(iElems)
     /\ (iLife = "live" /\ ~AtEnd) =>
          /\ iIt.element_.isValid
          /\ iIt.element_.val = iYielded[Len(iYielded)]

\* C5's case: exhaustion on element 2 of 3 yielded elements 1 and 3 and the
\* iterator reached the terminal state.
C5_Witness ==
  /\ iElems = <<[out |-> "ok"], [out |-> "nores"], [out |-> "ok"]>>
  /\ iBad = {}
  /\ iLife = "live"
  /\ AtEnd
  /\ iYielded = <<1, 3>>

\* plugin creation fails with another code or gives a null plugin, or the
\* interface query fails or gives a null interface
Fatal(out) == out \in {"plugerr", "plugnull", "qfail", "qnull"}

\* C6: once an element with a fatal outcome has been pulled, the advance
\* has raised an error, that element is never the current value of a
\* returned advance, and no further element is pulled from the cursor.
C6_FatalElementAborts ==
  \A i \in 1..iPos :
    Fatal(iElems[i].out) =>
      /\ iThrew
      /\ iLife \in {"thrown", "dead", "terminated"}
      /\ iPos = i
      /\ \A k \in 1..Len(iYielded) : iYielded[k] # i

\* C6's case: the second element was fatal after the first was yielded, and
\* a third element is left in the cursor.
C6_Witness ==
  /\ Len(iElems) = 3
  /\ iPos = 2
  /\ Fatal(iElems[2].out)
  /\ iYielded = <<1>>
  /\ iLife = "dead"

\* the number of entries e of log
CountOf(log, e) == Cardinality({k \in 1..Len(log) : log[k] = e})

\* C7: after construction and any number of advances, the iterator equals
\* end() exactly when IOIteratorNext has reported that no element remains;
\* then the cursor has been released and no current element is owned.  An
\* iterator built over an empty cursor equals end() at once.
C7_EndIffExhausted ==
  iLife = "live" =>
    /\ AtEnd <=> CountOf(iLog, <<"IOIteratorNext", iT, "cursor", 0>>) > 0
    /\ AtEnd => /\ CountOf(iLog, <<"IOObjectRelease", iT, "cursor", 1>>) = 1
                /\ ~iIt.element_.isValid
    /\ iElems = <<>> => AtEnd

\* C7's case: the terminal state was reached by advancing past a yielded
\* element.
C7_Witness ==
  /\ iLife = "live"
  /\ AtEnd
  /\ Len(iYielded) = 2

\* the entries of lg that are calls of call
CallsOf(lg, call) == SelectSeq(lg, LAMBDA c : c[1] = call)

\* the target unit id of main's request as the Camera holds it
TargetUnit ==
  CASE req.unit_ = kMotorUnit -> camera.motorUnit
    [] req.unit_ = kHwControlUnit -> camera.hwControlUnit
    [] OTHER -> Indet

\* C1: when camera.send(req) is called while the request's target unit id
\* (motor unit for pan, tilt and reset, hardware-control unit for led) was
\* not resolved by the descriptor walk, no control transfer is performed and
\* the send fails with an error, which the program reports.  (Stated for
\* the runs in which no OS call fails.)
C1_UnresolvedUnitNotSent ==
  (env.ok /\ env.sendCalled /\ TargetUnit = Indet) =>
    /\ transfers = <<>>
    /\ CallsOf(calls, "ControlRequest") = <<>>
    /\ pc = "done" => (reported = <<"Failure">> /\ exitStatus = "EXIT_1")

\* the index of the first device of devs that the enumeration can yield and
\* that has the ids 0x046d / 0x0994; 0 when there is none
IsCamera(e) == e.out = "ok" /\ e.vendor = 1133 /\ e.product = 2452

FirstCamera(devs) ==
  IF \E i \in 1..Len(devs) : IsCamera(devs[i])
  THEN CHOOSE i \in 1..Len(devs) :
         IsCamera(devs[i]) /\ \A j \in 1..(i - 1) : ~IsCamera(devs[j])
  ELSE 0

\* every OS call getCamera makes up to device n of devs succeeds or reports
\* resource exhaustion
CleanUpTo(devs, n) ==
  /\ cOut.createOK
  /\ cOut.bad = {}
  /\ \A i \in 1..n : devs[i].out \in {"ok", "nores"} /\ devs[i].rd = "ok"

\* C8: getCamera returns the first device in enumeration order whose vendor
\* id is 0x046d and product id is 0x0994, and an invalid Storage when there
\* is none; once a device matches, no later element is pulled from the
\* cursor and no later device's vendor or product is read.  It returns
\* whenever the OS calls it makes succeed.
C8_FirstMatchReturned ==
  LET f == FirstCamera(cDevs)
      last == IF f # 0 THEN f ELSE Len(cDevs) IN
  /\ cOut.status = "ok" =>
       /\ cOut.device.isValid <=> f # 0
       /\ f # 0 =>
            /\ cOut.device.val = f
            /\ cOut.pos = f
            /\ \A k \in 1..Len(cOut.log) :
                 cOut.log[k][1] \in {"IOIteratorNext", "GetDeviceVendor",
                                     "GetDeviceProduct"}
                   => cOut.log[k][4] <= f
  /\ (cOut.status # "none" /\ CleanUpTo(cDevs, last)) => cOut.status = "ok"

\* C8's case: the camera is second of three devices, behind a device with
\* other ids and before a second camera, and is the one returned.
C8_Witness ==
  /\ Len(cDevs) = 3
  /\ ~IsCamera(cDevs[1]) /\ cDevs[1].out = "ok"
  /\ IsCamera(cDevs[2])
  /\ IsCamera(cDevs[3])
  /\ cOut.status = "ok"
  /\ cOut.device = [isValid |-> TRUE, val |-> 2]

\* C9: when no enumerated device has the camera's ids, or the matched
\* device has no video-control interface, and no OS call fails,
\* scanDescriptors returns a Camera that is not valid without raising an
\* error, and the program exits with status 1 having made no descriptor
\* walk, no interface open and no control transfer.
C9_NotFoundExitsNonzero ==
  (env.ok /\ (env.noMatch \/ env.noInterface)) =>
    /\ pc \in {"scanned", "done"}
    /\ ~camera.interface.isValid
    /\ "Failure" \notin {reported[k] : k \in 1..Len(reported)}
    /\ CallsOf(calls, "FindNextAssociatedDescriptor") = <<>>
    /\ CallsOf(calls, "USBInterfaceOpen") = <<>>
    /\ CallsOf(calls, "ControlRequest") = <<>>
    /\ transfers = <<>>
    /\ pc = "done" => exitStatus = "EXIT_1"

\* C9's case: reset, with a camera found whose interface cursor is empty,
\* has exited.
C9_Witness ==
  /\ args = <<"orbitctl", "reset">>
  /\ env.ok
  /\ env.noInterface
  /\ ~env.noMatch
  /\ pc = "done"
  /\ exitStatus = "EXIT_1"
  /\ reported = <<"No video interfaces found">>

\* the extension-unit records of a walk that carry guid: their positions
IsExtensionUnit(rec) ==
  \/ rec.bDescriptorType = 36 /\ rec.bDescriptorSubType = 6
  \/ rec.bDescriptorType = 65 /\ rec.bDescriptorSubType = 1

UnitsWith(guid) ==
  {k \in 1..Len(walked) :
     IsExtensionUnit(walked[k]) /\ walked[k].guidExtensionCode = guid}

\* C10: after a walk whose records hold exactly one extension unit with the
\* motor GUID and exactly one with the hardware-control GUID, in either
\* order and among any other records, motorUnit is the unit id of the
\* former and hwControlUnit the unit id of the latter.
C10_BothUnitsResolved ==
  (wDone /\ Cardinality(UnitsWith(kMotorGuid)) = 1
         /\ Cardinality(UnitsWith(kHwControlGuid)) = 1) =>
    /\ \A k \in UnitsWith(kMotorGuid) : wCamera.motorUnit = walked[k].bUnitID
    /\ \A k \in UnitsWith(kHwControlGuid) :
         wCamera.hwControlUnit = walked[k].bUnitID

\* C10's case: a vendor-type hardware-control unit, then a record of another
\* type that holds the motor GUID, then a standard motor unit with another
\* unit id.
C10_Witness ==
  /\ wDone
  /\ walked = <<Record(65, 1, 2, kHwControlGuid),
                Record(36, 1, 1, kMotorGuid),
                Record(36, 6, 1, kMotorGuid)>>
  /\ wCamera.motorUnit = 1
  /\ wCamera.hwControlUnit = 2

\* the position of the last extension-unit record of the walk that carries
\* guid; 0 when there is none
LastWith(guid) ==
  IF UnitsWith(guid) = {} THEN 0
  ELSE CHOOSE k \in UnitsWith(guid) : \A j \in UnitsWith(guid) : j <= k

\* C11: when several extension-unit records carry the same GUID (motor or
\* hardware-control), the corresponding unit id after the walk is the unit
\* id of the last such record in walk order, whether the records are of the
\* standard or the vendor-specific type.
C11_LastRecordWins ==
  /\ LastWith(kMotorGuid) # 0 =>
       wCamera.motorUnit = walked[LastWith(kMotorGuid)].bUnitID
  /\ LastWith(kHwControlGuid) # 0 =>
       wCamera.hwControlUnit = walked[LastWith(kHwControlGuid)].bUnitID

\* C11's case: a standard motor unit with id 1, then a vendor-type motor
\* unit with id 2, then a standard hardware-control unit; the walk is over
\* and the motor unit id is 2.
C11_Witness ==
  /\ wDone
  /\ walked = <<Record(36, 6, 1, kMotorGuid),
                Record(65, 1, 2, kMotorGuid),
                Record(36, 6, 1, kHwControlGuid)>>
  /\ wCamera.motorUnit = 2
  /\ wCamera.hwControlUnit = 1

\* the positions of the calls of call in the log of the send
SentAt(call) == {k \in 1..Len(rSent.log) : rSent.log[k][1] = call}

\* C12: in sendControlRequest the interface close is called exactly once
\* after every successful interface open, whether the control transfer
\* succeeds or fails, and is never called without a preceding successful
\* open; the transfer is issued only between a successful open and its
\* close.
C12_OpenClosePaired ==
  rSent.called =>
    /\ Cardinality(SentAt("USBInterfaceOpen")) = 1
    /\ Cardinality(SentAt("USBInterfaceClose")) =
         (IF rSent.os.openOK THEN 1 ELSE 0)
    /\ \A c \in SentAt("USBInterfaceClose") :
         \E o \in SentAt("USBInterfaceOpen") : o < c /\ rSent.os.openOK
    /\ Cardinality(SentAt("ControlRequest")) = Len(rSent.transfers)
    /\ \A t \in SentAt("ControlRequest") :
         /\ rSent.os.openOK
         /\ \E o \in SentAt("USBInterfaceOpen") : o < t
         /\ \E c \in SentAt("USBInterfaceClose") : t < c

\* C12's case: the open succeeded, the transfer failed, and the close was
\* called after it.
C12_Witness ==
  /\ rSent.called
  /\ rSent.os.openOK
  /\ ~rSent.os.xferOK
  /\ rSent.status = "throw"
  /\ rSent.log = <<<<"USBInterfaceOpen", "interface", "element", 1>>,
                   <<"ControlRequest", "interface", "element", 1>>,
                   <<"USBInterfaceClose", "interface", "element", 1>>>>

\* main has left its try block, or the process has ended
Ended == pc \in {"done", "caught", "terminated"}

\* C13: in any run of the program at most one control transfer is issued
\* and none is retried: each non-scan command (reset, pan, tilt, led) issues
\* exactly one transfer when a matching device and interface are found and
\* every earlier OS call succeeds, and the scan command issues none.
C13_OneTransferPerRun ==
  /\ Len(transfers) <= 1
  /\ Len(CallsOf(calls, "ControlRequest")) = Len(transfers)
  /\ Len(CallsOf(calls, "USBInterfaceOpen")) <= 1
  /\ Parse(args).display => transfers = <<>>
  /\ (/\ Ended
      /\ ~Parse(args).usage
      /\ ~Parse(args).display
      /\ env.earlierOK
      /\ ~env.noMatch
      /\ ~env.noInterface) => Len(transfers) = 1

\* C13's case: led auto found the camera and its interface, every OS call up
\* to the transfer succeeded, the transfer failed, and the failure was
\* caught with one transfer issued.
C13_Witness ==
  /\ args = <<"orbitctl", "led", "auto">>
  /\ pc = "caught"
  /\ env.sendCalled
  /\ env.earlierOK
  /\ ~env.ok
  /\ Len(transfers) = 1
  /\ Len(CallsOf(calls, "ControlRequest")) = 1

\* the unit id Request::send reads from the camera of the send
SentUnit ==
  IF rReq.unit_ = 0 THEN rSent.camera.motorUnit
  ELSE rSent.camera.hwControlUnit

\* C14: for every unit id, interface number and selector in 0..255, the
\* issued control transfer has request code 0x01, value field equal to
\* selector * 256 (selector in the high byte, low byte 0), index field equal
\* to unitId * 256 + interfaceNumber (unit id in the high byte, interface
\* number in the low byte), both within 16 bits, and length equal to the
\* request's payload length.
C14_TransferShape ==
  (rSent.called /\ rSent.os.openOK) =>
    /\ Len(rSent.transfers) = 1
    /\ LET t == rSent.transfers[1] IN
       /\ t.bRequest = 1
       /\ t.wValue = rReq.selector_ * 256
       /\ t.wValue \div 256 = rReq.selector_ /\ t.wValue % 256 = 0
       /\ t.wIndex = SentUnit * 256 + rSent.camera.videoInterfaceNumber
       /\ t.wIndex \div 256 = SentUnit
       /\ t.wIndex % 256 = rSent.camera.videoInterfaceNumber
       /\ t.wValue \in 0..65535 /\ t.wIndex \in 0..65535
       /\ t.wLength = rReq.length_
       /\ t.wLength = Len(rReq.data_)
       /\ t.pData = rReq.data_

\* C14's case: selector, unit id and interface number are all 255, and the
\* transfer carries 0xFF00 and 0xFFFF with a payload of 32 bytes.
C14_Witness ==
  /\ rSent.called
  /\ rReq.selector_ = 255
  /\ rReq.unit_ = 0
  /\ rReq.length_ = 32
  /\ rSent.camera.motorUnit = 255
  /\ rSent.camera.videoInterfaceNumber = 255
  /\ Len(rSent.transfers) = 1
  /\ rSent.transfers[1].wValue = 65280
  /\ rSent.transfers[1].wIndex = 65535
  /\ rSent.transfers[1].wLength = 32

\* the enable byte and the magnitude byte of one axis
AxisBytes(delta) ==
  CASE delta = 0 -> <<0, 0>>
    [] delta < 0 -> <<128, delta + 256>>
    [] delta > 0 -> <<128, delta - 1>>

\* C15: for every pair of signed 8-bit deltas (left, up), panTiltRelative
\* produces the 4-byte payload [leftEnable, leftMag, upEnable, upMag]
\* addressed to the motor unit with selector 0x01, where for each axis a
\* zero delta gives enable 0 and magnitude 0, a negative delta gives enable
\* 0x80 and magnitude delta mod 256, and a positive delta gives enable 0x80
\* and magnitude delta - 1; so (1,0) gives 80 00 00 00, (-1,0) gives
\* 80 FF 00 00 and (0,0) gives 00 00 00 00.
C15_PanTiltEncoding ==
  rOp.op = "panTiltRelative" =>
    /\ rPc # "failed"
    /\ rReq.unit_ = 0
    /\ rReq.selector_ = 1
    /\ rReq.length_ = 4
    /\ rReq.data_ = AxisBytes(rOp.a) \o AxisBytes(rOp.b)
    /\ \A i \in 1..4 : rReq.data_[i] \in 0..255
    /\ (rOp.a = 1 /\ rOp.b = 0) => rReq.data_ = <<128, 0, 0, 0>>
    /\ (rOp.a = -1 /\ rOp.b = 0) => rReq.data_ = <<128, 255, 0, 0>>
    /\ (rOp.a = 0 /\ rOp.b = 0) => rReq.data_ = <<0, 0, 0, 0>>

\* C15's case: panTiltRelative(-128, 127) on a request that held an led
\* payload has stored 80 80 80 7E.
C15_Witness ==
  /\ rOp = [op |-> "panTiltRelative", a |-> -128, b |-> 127, data |-> <<>>]
  /\ rPrev.unit_ = 1
  /\ rReq = [unit_ |-> 0, selector_ |-> 1, data_ |-> <<128, 128, 128, 126>>,
             length_ |-> 4]

\* C16: for every mode byte and every 16-bit frequency, ledControl produces
\* the 3-byte payload [mode, frequency div 256, frequency mod 256]
\* (frequency big-endian) addressed to the hardware-control unit with
\* selector 0x01; mode on with frequency 20 gives 01 00 14.
C16_LedEncoding ==
  rOp.op = "ledControl" =>
    /\ rPc # "failed"
    /\ rReq.unit_ = 1
    /\ rReq.selector_ = 1
    /\ rReq.length_ = 3
    /\ rReq.data_ = <<rOp.a, rOp.b \div 256, rOp.b % 256>>
    /\ \A i \in 1..3 : rReq.data_[i] \in 0..255
    /\ (rOp.a = 1 /\ rOp.b = 20) => rReq.data_ = <<1, 0, 20>>

\* C16's case: ledControl(3, 0x1234) on a request that held a motor payload
\* has stored 03 12 34.
C16_Witness ==
  /\ rOp = [op |-> "ledControl", a |-> 3, b |-> 4660, data |-> <<>>]
  /\ rPrev.unit_ = 0
  /\ rReq = [unit_ |-> 1, selector_ |-> 1, data_ |-> <<3, 18, 52>>,
             length_ |-> 3]

\* C17: building a request with a payload longer than 32 bytes fails with
\* an error, leaves the request's unit, selector, payload bytes and length
\* unchanged, and leads to no control transfer; every payload of length
\* 0..32 is accepted and stored with exactly that length.
C17_PayloadLimit ==
  /\ rOp.op = "setData" =>
       IF Len(rOp.data) > 32
       THEN /\ rPc = "failed"
            /\ rReq = rPrev
       ELSE /\ rPc # "failed"
            /\ rReq.unit_ = rOp.a
            /\ rReq.selector_ = rOp.b
            /\ rReq.length_ = Len(rOp.data)
            /\ rReq.data_ = rOp.data
  /\ rPc = "failed" =>
       /\ rOp.op = "setData" /\ Len(rOp.data) > 32
       /\ ~rSent.called
       /\ rSent.transfers = <<>>
       /\ rSent.log = <<>>

\* C17's case: setData with 33 bytes on a request that holds an led payload
\* has thrown and the led payload is still there.
C17_Witness ==
  /\ rOp.op = "setData"
  /\ rOp.a = 0
  /\ rOp.b = 255
  /\ Len(rOp.data) = 33
  /\ rPc = "failed"
  /\ rReq = [unit_ |-> 1, selector_ |-> 1, data_ |-> <<1, 0, 20>>,
             length_ |-> 3]

\* scanDescriptors has selected its video-control interface: it is past
\* line 457 with the first element of the interface cursor in its Camera
Selected ==
  \/ pc \in {"interfaceNumber", "walk"}
  \/ CallsOf(calls, "GetInterfaceNumber") # <<>>

\* the release calls made on the selected interface handle
HandleReleases ==
  SelectSeq(calls, LAMBDA c :
              c = <<"Release", "interface", "element", camera.interface.val>>)

\* C18: the video-control interface handle selected by scanDescriptors is
\* owned by exactly one Storage at every point from its creation (iterator
\* element, then the local Camera, then the Camera in main), and its release
\* call is invoked exactly once, at scope exit, on the success path and on
\* every path where the interface-number query, the descriptor walk or the
\* send raises an error.
C18_InterfaceReleasedOnce ==
  Selected =>
    /\ Len(HandleReleases) <= 1
    /\ pc \in {"interfaceNumber", "walk", "scanned"} =>
         /\ camera.interface.isValid
         /\ HandleReleases = <<>>
    /\ Ended =>
         /\ ~camera.interface.isValid
         /\ Len(HandleReleases) = 1

\* the OS calls the program makes once per object
OnceCalls ==
  {"IOServiceGetMatchingServices", "CreateInterfaceIterator",
   "IOCreatePlugInInterfaceForService", "QueryInterface", "GetDeviceVendor",
   "GetDeviceProduct", "GetInterfaceNumber", "USBInterfaceOpen",
   "ControlRequest", "USBInterfaceClose", "IOObjectRelease",
   "IODestroyPlugInInterface", "Release"}

\* C19: every failure of an OS call other than the skippable resource
\* exhaustion during enumeration, including a failing release or close call
\* made during cleanup, unwinds to main's top-level handler, is reported
\* exactly once, and makes the program exit with a nonzero status; no OS
\* call is retried.
C19_FailuresReachHandler ==
  /\ ~env.ok =>
       /\ pc \in {"caught", "done"}
       /\ pc = "done" =>
            /\ Len(SelectSeq(reported, LAMBDA m : m = "Failure")) = 1
            /\ exitStatus = "EXIT_1"
  /\ \A j, k \in 1..Len(calls) :
       (j < k /\ calls[j][1] \in OnceCalls) => calls[j] # calls[k]

\* the command lines that are not usage errors
ValidCommandLines ==
  {<<"orbitctl", "scan">>, <<"orbitctl", "reset">>,
   <<"orbitctl", "pan", "left">>, <<"orbitctl", "pan", "right">>,
   <<"orbitctl", "tilt", "up">>, <<"orbitctl", "tilt", "down">>,
   <<"orbitctl", "led", "on">>, <<"orbitctl", "led", "off">>,
   <<"orbitctl", "led", "auto">>}

\* C20: any command line other than exactly scan, reset, pan left|right,
\* tilt up|down or led on|off|auto, including one with a missing, unknown or
\* extra argument, is a usage error: the program exits with nonzero status
\* without enumerating devices and without sending a control transfer.
C20_UsageErrors ==
  (args \notin ValidCommandLines /\ pc # "main") =>
    /\ pc = "done"
    /\ exitStatus = "EXIT_1"
    /\ reported = <<"usage">>
    /\ calls = <<>>
    /\ transfers = <<>>

\* C21: a walked descriptor record changes Camera state only if its (type,
\* subtype) is (0x24, 0x06) or (0x41, 0x01) and its GUID equals one of the
\* two fixed constants: every other record, and every extension-unit record
\* with a different GUID, leaves motorUnit, hwControlUnit and the interface
\* number unchanged and never makes the walk fail; a motor-GUID record
\* leaves hwControlUnit unchanged and a hardware-control-GUID record leaves
\* motorUnit unchanged.
C21_WalkFrame ==
  [][walked' # walked =>
       LET d == walked'[Len(walked')]
           matches == IsExtensionUnit(d)
                        /\ d.guidExtensionCode \in {kMotorGuid, kHwControlGuid}
       IN
       /\ wDone' = wDone
       /\ wCamera'.interface = wCamera.interface
       /\ wCamera'.videoInterfaceNumber = wCamera.videoInterfaceNumber
       /\ ~matches => wCamera' = wCamera
       /\ (matches /\ d.guidExtensionCode = kMotorGuid) =>
            wCamera'.hwControlUnit = wCamera.hwControlUnit
       /\ (matches /\ d.guidExtensionCode = kHwControlGuid) =>
            wCamera'.motorUnit = wCamera.motorUnit]_vars

\* C21's case: after a motor unit with id 2 was resolved, a header record
\* and an endpoint record that hold the two GUIDs and an extension unit with
\* another GUID were walked, and the Camera still holds motor unit 2 and no
\* hardware-control unit.
C21_Witness ==
  /\ Len(walked) = 3
  /\ walked[1] = Record(65, 1, 2, kMotorGuid)
  /\ walked[2] \in {Record(36, 1, 1, kMotorGuid),
                    Record(37, 1, 2, kHwControlGuid)}
  /\ walked[3] = Record(36, 6, 1, [kMotorGuid EXCEPT ![1] = 0])
  /\ wCamera.motorUnit = 2
  /\ wCamera.hwControlUnit = Indet
  /\ wCamera.videoInterfaceNumber = Indet

\* the values a read of the byte v can give
ReadsOf(v) == {ReadByte(v, b) : b \in IndetBytes}

\* the byte v holds one value, and no record resolves a unit id to it
IsSentinel(v) == Cardinality(ReadsOf(v)) = 1 /\ ReadsOf(v) \cap UnitIds = {}

\* C22: after a descriptor walk in which no extension-unit record carried
\* the motor GUID (respectively the hardware-control GUID), the returned
\* Camera's motor unit id (respectively hardware-control unit id) holds the
\* fixed 'unresolved' sentinel value, distinguishable from every unit id a
\* record can resolve to; the walk itself does not fail because a unit is
\* unresolved.
C22_UnresolvedSentinel ==
  wDone =>
    /\ UnitsWith(kMotorGuid) = {} => IsSentinel(wCamera.motorUnit)
    /\ UnitsWith(kHwControlGuid) = {} => IsSentinel(wCamera.hwControlUnit)

\* the plugin creation for an element with outcome out gives a plugin
PlugInMade(out) == out \in {"ok", "qfail", "qnull"}

\* C23: every raw service element that IOIterator::operator++ pulls from the
\* cursor is released exactly once, whether the element is skipped for
\* resource exhaustion, causes a fatal error, or is yielded; the plugin
\* object created for an element is destroyed exactly once when its
\* creation succeeded and never when creation failed or was skipped.
C23_ElementsReleasedOnce ==
  \A i \in 1..iPos :
    /\ CountOf(iLog, <<"IOObjectRelease", iT, "service", i>>) = 1
    /\ CountOf(iLog, <<"IODestroyPlugInInterface", iT, "plugin", i>>) =
         (IF PlugInMade(iElems[i].out) THEN 1 ELSE 0)

\* the calls of the log that create a cursor, and those that release one
CursorCreations ==
  CountOf(iLog, <<"IOServiceGetMatchingServices", iT, "cursor", 1>>)
    + CountOf(iLog, <<"CreateInterfaceIterator", iT, "cursor", 1>>)

CursorReleases == CountOf(iLog, <<"IOObjectRelease", iT, "cursor", 1>>)

\* C24: the enumeration cursor obtained for an IOIterator is released
\* exactly once on every path: when the cursor is exhausted, when iteration
\* stops early at the first match (getCamera, scanDescriptors), when an
\* advance raises a fatal error, and when the iterator is overwritten by
\* move-assignment from end(); it is never released when the OS call that
\* should have created it failed.
C24_CursorReleasedOnce ==
  /\ CursorReleases <= CursorCreations
  /\ CursorCreations <= 1
  /\ (iLife = "live" /\ AtEnd) => CursorReleases = CursorCreations
  /\ (iLife = "live" /\ ~AtEnd) => CursorReleases = 0
  /\ iLife \in {"assigned", "dead", "terminated"} =>
       CursorReleases = CursorCreations

====
